---- MODULE Spec2Model ----
(***************************************************************************)
(* pysmi code generators: the symbol table builder (SymtableCodeGen, STB)  *)
(* and the JSON document generator (JsonCodeGen, DG).                      *)
(*                                                                         *)
(* Python strings that the code inspects character by character (symbol,   *)
(* type and module names, dotted OIDs) are sequences of one-character      *)
(* strings, so that transOpers, str and join are computed, not assumed.    *)
(* Tags that the code only compares (clause tags, 'type'/'class' values,   *)
(* exception kinds) are plain strings.  A dict is a function; an ordered   *)
(* dict is a sequence of key/value records.                                *)
(***************************************************************************)
EXTENDS Integers, Sequences, FiniteSets, TLC

VARIABLES
    stb,          \* the SymtableCodeGen instance
    dg,           \* the JsonCodeGen instance
    scenario,     \* which family of input ASTs this behaviour draws from
    ast,          \* the AST handed to the genCode call in progress
    astImports,   \* the imports dict of that AST as genImports has left it
    building,     \* TRUE while the AST's declaration list is still being drawn
    pc,           \* "idle", "stb", "stbDone", "dg", "dgDone"
    pos,          \* declarations of ast consumed by the genCode call in progress
    symbolTable,  \* moduleName -> symbol table returned by STB genCode
    stbResult,    \* outcome of the last STB genCode call
    dgResult,     \* outcome of the last DG genCode call
    runs,         \* STB genCode calls made on the instance so far
    firstAst,     \* AST of the first STB genCode call
    firstResult   \* outcome of the first STB genCode call

vars == <<stb, dg, scenario, ast, astImports, building, pc, pos, symbolTable, stbResult,
          dgResult, runs, firstAst, firstResult>>

(***************************************************************************)
(* Bounds of the model.                                                    *)
(***************************************************************************)
\* longest declaration list of an input AST
MaxDecls == 3
\* STB genCode calls on one instance (scenario "rerun")
MaxRuns == 2
\* frames the interpreter allows genNumericOid before RecursionError
\* (sys.getrecursionlimit() is 1000; any value above MaxDecls behaves alike)
RecursionLimit == 6

(***************************************************************************)
(* Python built-ins used by the two generators.                            *)
(***************************************************************************)
Digits == <<"0","1","2","3","4","5","6","7","8","9">>

\* str(n) for a non-negative integer: its decimal digits
RECURSIVE str(_)
str(n) == IF n < 10 THEN <<Digits[n + 1]>>
          ELSE str(n \div 10) \o <<Digits[(n % 10) + 1]>>

\* sep.join(parts)
RECURSIVE join(_, _)
join(sep, parts) ==
    IF parts = <<>> THEN <<>>
    ELSE IF Len(parts) = 1 THEN parts[1]
    ELSE parts[1] \o sep \o join(sep, Tail(parts))

\* characters of the names in use, in code point order
Ascii == <<"-","0","1","2","3","4","5","6","7","8","9","A","B","C","D","E","F","G","H","I","J","K","L","M","N","O","P","Q","R","S","T","U","V","W","X","Y","Z","_","a","b","c","d","e","f","g","h","i","j","k","l","m","n","o","p","q","r","s","t","u","v","w","x","y","z">>

ord(c) == CHOOSE i \in 1..Len(Ascii) : Ascii[i] = c

\* a < b for two strings (the order sorted() uses)
RECURSIVE strLess(_, _)
strLess(a, b) ==
    IF b = <<>> THEN FALSE
    ELSE IF a = <<>> THEN TRUE
    ELSE IF a[1] # b[1] THEN ord(a[1]) < ord(b[1])
    ELSE strLess(Tail(a), Tail(b))

\* sorted(S) for a set of strings
RECURSIVE sorted(_)
sorted(S) ==
    IF S = {} THEN <<>>
    ELSE LET m == CHOOSE x \in S : \A y \in S : y = x \/ strLess(x, y)
         IN  <<m>> \o sorted(S \ {m})

\* keyword.kwlist
kwlist == {<<"F","a","l","s","e">>, <<"N","o","n","e">>, <<"T","r","u","e">>, <<"a","n","d">>, <<"a","s">>, <<"a","s","s","e","r","t">>, <<"a","s","y","n","c">>,
           <<"a","w","a","i","t">>, <<"b","r","e","a","k">>, <<"c","l","a","s","s">>, <<"c","o","n","t","i","n","u","e">>, <<"d","e","f">>, <<"d","e","l">>, <<"e","l","i","f">>,
           <<"e","l","s","e">>, <<"e","x","c","e","p","t">>, <<"f","i","n","a","l","l","y">>, <<"f","o","r">>, <<"f","r","o","m">>, <<"g","l","o","b","a","l">>, <<"i","f">>,
           <<"i","m","p","o","r","t">>, <<"i","n">>, <<"i","s">>, <<"l","a","m","b","d","a">>, <<"n","o","n","l","o","c","a","l">>, <<"n","o","t">>, <<"o","r">>,
           <<"p","a","s","s">>, <<"r","a","i","s","e">>, <<"r","e","t","u","r","n">>, <<"t","r","y">>, <<"w","h","i","l","e">>, <<"w","i","t","h">>, <<"y","i","e","l","d">>}

iskeyword(s) == s \in kwlist

\* the element of a one-element set; The({e(v) : v \in {x}}) is e(x) with
\* x evaluated once
The(S) == CHOOSE r \in S : TRUE

\* elements of a list, as a set
Range(s) == {s[i] : i \in 1..Len(s)}

\* dict with no key
EmptyDict == [k \in {} |-> <<>>]

\* d[k] = v on a dict
DictSet(d, k, v) == [x \in DOMAIN d \cup {k} |-> IF x = k THEN v ELSE d[x]]

\* d.get(k, default)
DictGet(d, k, default) == IF k \in DOMAIN d THEN d[k] ELSE default

\* the characters ' and " of DEFVAL literals
Apostrophe == "'"
Quote == "\""

HexDigits == <<"0","1","2","3","4","5","6","7","8","9","a","b","c","d","e","f">>

\* value of one digit, in either case
digit(c) == CHOOSE v \in 0..15 : c = HexDigits[v + 1] \/ c = <<"0","1","2","3","4","5","6","7","8","9","A","B","C","D","E","F">>[v + 1]

\* int(s, base) for a non-empty string of digits
RECURSIVE int(_, _)
int(s, base) ==
    IF Len(s) = 1 THEN digit(s[1])
    ELSE int(SubSeq(s, 1, Len(s) - 1), base) * base + digit(s[Len(s)])

\* hex(n)[2:]
RECURSIVE hex(_)
hex(n) == IF n < 16 THEN <<HexDigits[n + 1]>>
          ELSE hex(n \div 16) \o <<HexDigits[(n % 16) + 1]>>

\* repr(s) of a string without quotes or escapes in it
dorepr(s) == <<Apostrophe>> \o s \o <<Apostrophe>>

\* s[i:j] with Python's indices (j counted from the end when negative)
Slice(s, i, j) == SubSeq(s, i + 1, IF j < 0 THEN Len(s) + j ELSE j)

(***************************************************************************)
(* Exceptions.  exc is the exception a call left propagating, NoExc when   *)
(* it returned normally.  syms are the names the message is formatted      *)
(* with.                                                                   *)
(***************************************************************************)
NoExc == [kind |-> "none", text |-> "", syms |-> <<>>]

PySmiSemanticError(text, syms) ==
    [kind |-> "PySmiSemanticError", text |-> text, syms |-> syms]

PySmiCodegenError(text, syms) ==
    [kind |-> "PySmiCodegenError", text |-> text, syms |-> syms]

\* raised by the interpreter, not by the generators
RecursionError == [kind |-> "RecursionError", text |-> "maximum recursion depth exceeded", syms |-> <<>>]

KeyError(key) == [kind |-> "KeyError", text |-> "", syms |-> <<key>>]

\* a list used where a hashable key is needed
TypeError == [kind |-> "TypeError", text |-> "unhashable type: 'list'", syms |-> <<>>]

\* append or remove called on a tuple
AttributeError == [kind |-> "AttributeError", text |-> "'tuple' object has no attribute", syms |-> <<>>]

\* int('', 16)
ValueError == [kind |-> "ValueError", text |-> "invalid literal for int()", syms |-> <<>>]

Raised(self) == self.exc.kind # "none"

Raise(self, e) == [self EXCEPT !.exc = e]

(***************************************************************************)
(* The input AST.                                                          *)
(***************************************************************************)
\* OID elements as the parser hands them over: a name, a number, or a
\* (name, number) pair
OidName(s) == [k |-> "str", s |-> s, n |-> 0]
OidInt(n) == [k |-> "int", s |-> <<>>, n |-> n]
OidPair(s, n) == [k |-> "tuple", s |-> s, n |-> n]

\* ('SimpleSyntax', objType)
SimpleSyntax(objType) == [tag |-> "SimpleSyntax", type |-> objType]
NoSyntax == [tag |-> "", type |-> <<>>]

\* ('valueDeclaration', name, ('objectIdentifier', oid))
ValueDeclaration(name, oid) ==
    [clause |-> "valueDeclaration", name |-> name, syntax |-> NoSyntax,
     index |-> <<>>, augmention |-> <<>>, oid |-> oid, value |-> 0]

\* ('typeDeclaration', name, ('typeDeclarationRHS', ('SimpleSyntax', parentType)))
TypeDeclaration(name, parentType) ==
    [clause |-> "typeDeclaration", name |-> name, syntax |-> SimpleSyntax(parentType),
     index |-> <<>>, augmention |-> <<>>, oid |-> <<>>, value |-> 0]

\* ('objectTypeClause', name, syntax, units, maxaccess, description,
\*  augmention, ('INDEX', index), defval, ('objectIdentifier', oid));
\* index <<>> stands for a clause without INDEX, augmention <<>> for one
\* without AUGMENTS
ObjectType(name, objType, augmention, index, oid) ==
    [clause |-> "objectTypeClause", name |-> name, syntax |-> SimpleSyntax(objType),
     index |-> index, augmention |-> augmention, oid |-> oid, value |-> 0]

\* ('trapTypeClause', name, ('objectIdentifier', enterprise), variables,
\*  description, value)
TrapType(name, enterprise, value) ==
    [clause |-> "trapTypeClause", name |-> name, syntax |-> NoSyntax,
     index |-> <<>>, augmention |-> <<>>, oid |-> enterprise, value |-> value]

\* the clauses made of a name, an OID and optional sub-clauses:
\* moduleIdentityClause, moduleComplianceClause, notificationGroupClause,
\* notificationTypeClause, objectGroupClause
OidClause(clause, name, oid) ==
    [clause |-> clause, name |-> name, syntax |-> NoSyntax,
     index |-> <<>>, augmention |-> <<>>, oid |-> oid, value |-> 0]

\* ('SimpleSyntax', objType, ('enumSpec', items)); items are (name, value)
\* pairs in the order written
EnumSyntax(objType, items) ==
    [tag |-> "SimpleSyntax", type |-> objType, enumSpec |-> items]

\* ('BITS', bits)
BitsSyntax(bits) == [tag |-> "BITS", type |-> <<>>, bits |-> bits]

\* ('row', name): the syntax of an OBJECT-TYPE that is a bare type name
RowSyntax(name) == [tag |-> "row", type |-> name]

\* ('conceptualTable', ('row', name)): SEQUENCE OF name
ConceptualTable(name) == [tag |-> "conceptualTable", type |-> name]

EnumItem(name, value) == [name |-> name, value |-> value]

\* the value of a ('DEFVAL', value) clause: an int, a str or a list of names
DefvalInt(n) == [k |-> "int", n |-> n]
DefvalStr(s) == [k |-> "str", s |-> s]
DefvalList(l) == [k |-> "list", l |-> l]

\* a declaration with one more sub-clause; a clause that is absent from the
\* declaration is absent from the record
WithSyntax(declr, syntax) == [declr EXCEPT !.syntax = syntax]
WithDefval(declr, defval) == [defval |-> defval] @@ declr
WithUnits(declr, units) == [units |-> units] @@ declr
WithDescription(declr, description) == [description |-> description] @@ declr

(***************************************************************************)
(* SymtableCodeGen                                                         *)
(***************************************************************************)
symsTable ==
    (<<"M","O","D","U","L","E","-","I","D","E","N","T","I","T","Y">> :> <<<<"M","o","d","u","l","e","I","d","e","n","t","i","t","y">>>>) @@
    (<<"O","B","J","E","C","T","-","T","Y","P","E">> :> <<<<"M","i","b","S","c","a","l","a","r">>, <<"M","i","b","T","a","b","l","e">>, <<"M","i","b","T","a","b","l","e","R","o","w">>, <<"M","i","b","T","a","b","l","e","C","o","l","u","m","n">>>>) @@
    (<<"N","O","T","I","F","I","C","A","T","I","O","N","-","T","Y","P","E">> :> <<<<"N","o","t","i","f","i","c","a","t","i","o","n","T","y","p","e">>>>) @@
    (<<"T","E","X","T","U","A","L","-","C","O","N","V","E","N","T","I","O","N">> :> <<<<"T","e","x","t","u","a","l","C","o","n","v","e","n","t","i","o","n">>>>) @@
    (<<"M","O","D","U","L","E","-","C","O","M","P","L","I","A","N","C","E">> :> <<<<"M","o","d","u","l","e","C","o","m","p","l","i","a","n","c","e">>>>) @@
    (<<"O","B","J","E","C","T","-","G","R","O","U","P">> :> <<<<"O","b","j","e","c","t","G","r","o","u","p">>>>) @@
    (<<"N","O","T","I","F","I","C","A","T","I","O","N","-","G","R","O","U","P">> :> <<<<"N","o","t","i","f","i","c","a","t","i","o","n","G","r","o","u","p">>>>) @@
    (<<"A","G","E","N","T","-","C","A","P","A","B","I","L","I","T","I","E","S">> :> <<<<"A","g","e","n","t","C","a","p","a","b","i","l","i","t","i","e","s">>>>) @@
    (<<"O","B","J","E","C","T","-","I","D","E","N","T","I","T","Y">> :> <<<<"O","b","j","e","c","t","I","d","e","n","t","i","t","y">>>>) @@
    (<<"T","R","A","P","-","T","Y","P","E">> :> <<<<"N","o","t","i","f","i","c","a","t","i","o","n","T","y","p","e">>>>) @@
    (<<"B","I","T","S">> :> <<<<"B","i","t","s">>>>)

stbConstImports ==
    (<<"S","N","M","P","v","2","-","S","M","I">> :> <<<<"i","s","o">>, <<"B","i","t","s">>, <<"I","n","t","e","g","e","r","3","2">>, <<"T","i","m","e","T","i","c","k","s">>, <<"C","o","u","n","t","e","r","3","2">>,
                        <<"C","o","u","n","t","e","r","6","4">>, <<"N","O","T","I","F","I","C","A","T","I","O","N","-","T","Y","P","E">>, <<"G","a","u","g","e","3","2">>,
                        <<"M","O","D","U","L","E","-","I","D","E","N","T","I","T","Y">>, <<"O","B","J","E","C","T","-","T","Y","P","E">>, <<"O","B","J","E","C","T","-","I","D","E","N","T","I","T","Y">>,
                        <<"U","n","s","i","g","n","e","d","3","2">>, <<"I","p","A","d","d","r","e","s","s">>, <<"M","i","b","I","d","e","n","t","i","f","i","e","r">>>>) @@
    (<<"S","N","M","P","v","2","-","T","C">> :> <<<<"D","i","s","p","l","a","y","S","t","r","i","n","g">>, <<"T","E","X","T","U","A","L","-","C","O","N","V","E","N","T","I","O","N">>>>) @@
    (<<"S","N","M","P","v","2","-","C","O","N","F">> :> <<<<"M","O","D","U","L","E","-","C","O","M","P","L","I","A","N","C","E">>, <<"N","O","T","I","F","I","C","A","T","I","O","N","-","G","R","O","U","P">>>>)

baseTypes == <<<<"I","n","t","e","g","e","r">>, <<"I","n","t","e","g","e","r","3","2">>, <<"B","i","t","s">>, <<"O","b","j","e","c","t","I","d","e","n","t","i","f","i","e","r">>, <<"O","c","t","e","t","S","t","r","i","n","g">>>>

stbTypeClasses ==
    (<<"C","O","U","N","T","E","R","3","2">> :> <<"C","o","u","n","t","e","r","3","2">>) @@
    (<<"C","O","U","N","T","E","R","6","4">> :> <<"C","o","u","n","t","e","r","6","4">>) @@
    (<<"G","A","U","G","E","3","2">> :> <<"G","a","u","g","e","3","2">>) @@
    (<<"I","N","T","E","G","E","R">> :> <<"I","n","t","e","g","e","r","3","2">>) @@
    (<<"I","N","T","E","G","E","R","3","2">> :> <<"I","n","t","e","g","e","r","3","2">>) @@
    (<<"I","P","A","D","D","R","E","S","S">> :> <<"I","p","A","d","d","r","e","s","s">>) @@
    (<<"N","E","T","W","O","R","K","A","D","D","R","E","S","S">> :> <<"I","p","A","d","d","r","e","s","s">>) @@
    (<<"O","B","J","E","C","T"," ","I","D","E","N","T","I","F","I","E","R">> :> <<"O","b","j","e","c","t","I","d","e","n","t","i","f","i","e","r">>) @@
    (<<"O","C","T","E","T"," ","S","T","R","I","N","G">> :> <<"O","c","t","e","t","S","t","r","i","n","g">>) @@
    (<<"O","P","A","Q","U","E">> :> <<"O","p","a","q","u","e">>) @@
    (<<"T","I","M","E","T","I","C","K","S">> :> <<"T","i","m","e","T","i","c","k","s">>) @@
    (<<"U","N","S","I","G","N","E","D","3","2">> :> <<"U","n","s","i","g","n","e","d","3","2">>) @@
    (<<"C","o","u","n","t","e","r">> :> <<"C","o","u","n","t","e","r","3","2">>) @@
    (<<"G","a","u","g","e">> :> <<"G","a","u","g","e","3","2">>) @@
    (<<"N","e","t","w","o","r","k","A","d","d","r","e","s","s">> :> <<"I","p","A","d","d","r","e","s","s">>) @@
    (<<"n","u","l","l","S","p","e","c","i","f","i","c">> :> <<"z","e","r","o","D","o","t","Z","e","r","o">>) @@
    (<<"i","p","R","o","u","t","i","n","g","T","a","b","l","e">> :> <<"i","p","R","o","u","t","e","T","a","b","l","e">>) @@
    (<<"s","n","m","p","E","n","a","b","l","e","A","u","t","h","T","r","a","p","s">> :> <<"s","n","m","p","E","n","a","b","l","e","A","u","t","h","e","n","T","r","a","p","s">>)

smiv1IdxTypes == <<<<"I","N","T","E","G","E","R">>, <<"O","C","T","E","T"," ","S","T","R","I","N","G">>, <<"I","P","A","D","D","R","E","S","S">>, <<"N","E","T","W","O","R","K","A","D","D","R","E","S","S">>>>

\* class attribute: starting index for fake symbols
fakeidx == 1000

\* class attribute of the code generators: SMIv1 module -> symbol -> the
\* (module, symbol) pairs that replace it
convertImportv2 ==
    <<"R","F","C","1","1","5","5","-","S","M","I">> :> (<<"C","o","u","n","t","e","r">> :> <<<<<<"S","N","M","P","v","2","-","S","M","I">>, <<"C","o","u","n","t","e","r","3","2">>>>>>)

\* SymtableCodeGen.__init__; fakeidx is read from the class until genIndex
\* first assigns it on the instance
stbInit ==
    [rows |-> {}, postponedSyms |-> <<>>, parentOids |-> {},
     importMap |-> EmptyDict, symsOrder |-> <<>>, out |-> EmptyDict,
     moduleName |-> <<"D","U","M","M","Y">>, fakeidx |-> fakeidx,
     convertImportv2 |-> convertImportv2, exc |-> NoExc]

symTrans(symbol) ==
    IF symbol \in DOMAIN symsTable THEN symsTable[symbol] ELSE <<symbol>>

stbTransOpers(symbol) ==
    LET s == IF iskeyword(symbol) THEN <<"p","y","s","m","i","_">> \o symbol ELSE symbol
    IN  [i \in 1..Len(s) |-> IF s[i] = "-" THEN "_" ELSE s[i]]

\* the imports of an AST are a dict in the order of the IMPORTS clause: a
\* sequence of [key, val, tuple], val the symbols imported from module key;
\* tuple tells a value that is a tuple of constImports from a list
Keys(d) == [i \in 1..Len(d) |-> d[i].key]

ImportsOf(items) ==
    [i \in 1..Len(items) |-> [key |-> items[i][1], val |-> items[i][2], tuple |-> FALSE]]

ImportsItem(imports, module) ==
    imports[CHOOSE i \in 1..Len(imports) : imports[i].key = module]

\* the loop over convertImportv2[module][symbol]: each replacement is
\* appended to the symbols of its module, or opens that module
RECURSIVE appendReplacements(_, _)
appendReplacements(st, newImports) ==
    IF newImports = <<>> \/ st.exc.kind # "none" THEN st
    ELSE LET newModule == Head(newImports)[1]
             newSymbol == Head(newImports)[2]
             imports == st.imports
         IN  IF newModule \notin Range(Keys(imports))
             THEN appendReplacements(
                      [st EXCEPT !.imports = Append(imports,
                          [key |-> newModule, val |-> <<newSymbol>>, tuple |-> FALSE])],
                      Tail(newImports))
             ELSE IF ImportsItem(imports, newModule).tuple
             THEN [st EXCEPT !.exc = AttributeError]
             ELSE appendReplacements(
                      [st EXCEPT !.imports =
                          [i \in 1..Len(imports) |->
                              IF imports[i].key = newModule
                              THEN [imports[i] EXCEPT !.val = Append(@, newSymbol)]
                              ELSE imports[i]]],
                      Tail(newImports))

\* the loop over imports[module] from its i-th symbol on; the list is read
\* as it stands at each turn, symbols appended to it meanwhile included
RECURSIVE convertSymbols(_, _, _, _)
convertSymbols(st, table, module, i) ==
    IF st.exc.kind # "none" \/ i > Len(ImportsItem(st.imports, module).val) THEN st
    ELSE LET symbol == ImportsItem(st.imports, module).val[i]
         IN  IF symbol \in DOMAIN table[module]
             THEN convertSymbols(
                      appendReplacements(
                          [st EXCEPT !.toDel = Append(@, <<module, symbol>>)],
                          table[module][symbol]),
                      table, module, i + 1)
             ELSE convertSymbols(st, table, module, i + 1)

\* the loop over list(imports): the modules the dict had at the start
RECURSIVE convertModules(_, _, _)
convertModules(st, table, modules) ==
    IF modules = <<>> \/ st.exc.kind # "none" THEN st
    ELSE convertModules(
             IF Head(modules) \in DOMAIN table
             THEN convertSymbols(st, table, Head(modules), 1)
             ELSE st,
             table, Tail(modules))

\* removing converted symbols: list.remove takes the first occurrence out
RECURSIVE removeConverted(_, _)
removeConverted(st, toDel) ==
    IF toDel = <<>> \/ st.exc.kind # "none" THEN st
    ELSE LET d == Head(toDel)
             l == ImportsItem(st.imports, d[1]).val
             k == CHOOSE n \in 1..Len(l) : l[n] = d[2] /\ \A j \in 1..(n - 1) : l[j] # d[2]
         IN  IF ImportsItem(st.imports, d[1]).tuple
             THEN [st EXCEPT !.exc = AttributeError]
             ELSE removeConverted(
                      [st EXCEPT !.imports =
                          [i \in 1..Len(st.imports) |->
                              IF st.imports[i].key = d[1]
                              THEN [st.imports[i] EXCEPT
                                       !.val = SubSeq(l, 1, k - 1) \o SubSeq(l, k + 1, Len(l))]
                              ELSE st.imports[i]]],
                      Tail(toDel))

\* merging mib and constant imports: a module the dict lacks gets the
\* tuple of constImports itself, the others grow by it
RECURSIVE mergeConstImports(_, _, _)
mergeConstImports(imports, constImports, modules) ==
    IF modules = <<>> THEN imports
    ELSE LET module == Head(modules)
         IN  mergeConstImports(
                 IF module \in Range(Keys(imports))
                 THEN [i \in 1..Len(imports) |->
                          IF imports[i].key = module
                          THEN [imports[i] EXCEPT !.val = @ \o constImports[module]]
                          ELSE imports[i]]
                 ELSE Append(imports, [key |-> module, val |-> constImports[module],
                                       tuple |-> TRUE]),
                 constImports, Tail(modules))

\* what genImports makes of the imports dict it is handed, which is the
\* dict of the AST: conversion, removal and merge (in the order of the keys
\* of constImports) all happen in place; an exception leaves the dict as it
\* was when raised
convertImports(table, constImports, imports) ==
    LET converted == convertModules([imports |-> imports, toDel |-> <<>>, exc |-> NoExc],
                                    table, Keys(imports))
        removed == removeConverted(converted, converted.toDel)
    IN  IF removed.exc.kind # "none" THEN removed
        ELSE [removed EXCEPT !.imports =
                 mergeConstImports(removed.imports, constImports,
                     <<<<"S","N","M","P","v","2","-","S","M","I">>, <<"S","N","M","P","v","2","-","T","C">>, <<"S","N","M","P","v","2","-","C","O","N","F">>>>)]

\* the dict of symbols by module that the loop over sorted(imports) reads
ImportsDict(imports) ==
    [module \in Range(Keys(imports)) |-> ImportsItem(imports, module).val]

\* merging mib and constant imports, then filling _importMap module by
\* module in sorted order (a later module overwrites an earlier one)
RECURSIVE stbImportMapUpdate(_, _, _)
stbImportMapUpdate(importMap, imports, modules) ==
    IF modules = <<>> THEN importMap
    ELSE LET module == Head(modules)
             symbols == UNION {Range(symTrans(symbol)) : symbol \in Range(imports[module])}
             updated == [s \in DOMAIN importMap \cup {stbTransOpers(x) : x \in symbols} |->
                            IF s \in {stbTransOpers(x) : x \in symbols} THEN module
                            ELSE importMap[s]]
         IN  stbImportMapUpdate(updated, imports, Tail(modules))

stbGenImports(self, imports) ==
    LET done == convertImports(self.convertImportv2, stbConstImports, imports)
        merged == ImportsDict(done.imports)
    IN  IF done.exc.kind # "none" THEN Raise(self, done.exc)
        ELSE [self EXCEPT !.importMap =
                 stbImportMapUpdate(self.importMap, merged, sorted(DOMAIN merged))]

\* an allParentsExists that counts admitted symbols only
allParentsExistsAdmittedOnly(self, parents) ==
    \A i \in 1..Len(parents) : parents[i] \in DOMAIN self.out

allParentsExists(self, parents) ==
    \A i \in 1..Len(parents) :
        LET parent == parents[i]
        IN  \/ parent \in DOMAIN self.out
            \/ parent \in DOMAIN self.importMap
            \/ parent \in Range(baseTypes)
            \/ parent \in {<<"M","i","b","T","a","b","l","e">>, <<"M","i","b","T","a","b","l","e","R","o","w">>, <<"M","i","b","T","a","b","l","e","C","o","l","u","m","n">>}
            \/ parent \in self.rows

\* a regPostponedSyms that admits a postponed symbol without appending it
\* to the order list
RECURSIVE regPostponedScanUnordered(_, _, _)
regPostponedScanUnordered(self, i, regedSyms) ==
    IF i > Len(self.postponedSyms)
    THEN [self EXCEPT !.postponedSyms =
             SelectSeq(self.postponedSyms, LAMBDA p : p.sym \notin regedSyms)]
    ELSE LET p == self.postponedSyms[i]
         IN  IF allParentsExists(self, p.parents)
             THEN regPostponedScanUnordered(
                      [self EXCEPT !.out = DictSet(self.out, p.sym, p.symProps)],
                      i + 1, regedSyms \cup {p.sym})
             ELSE regPostponedScanUnordered(self, i + 1, regedSyms)

\* the loop of regPostponedSyms from entry i of the postponed dict on;
\* regedSyms are the names admitted so far by this scan
RECURSIVE regPostponedScan(_, _, _)
regPostponedScan(self, i, regedSyms) ==
    IF i > Len(self.postponedSyms)
    THEN [self EXCEPT !.postponedSyms =
             SelectSeq(self.postponedSyms, LAMBDA p : p.sym \notin regedSyms)]
    ELSE LET p == self.postponedSyms[i]
         IN  IF allParentsExists(self, p.parents)
             THEN regPostponedScan(
                      [self EXCEPT !.out = DictSet(self.out, p.sym, p.symProps),
                                   !.symsOrder = Append(self.symsOrder, p.sym)],
                      i + 1, regedSyms \cup {p.sym})
             ELSE regPostponedScan(self, i + 1, regedSyms)

regPostponedSyms(self) == regPostponedScan(self, 1, {})

\* a regSym that looks for the symbol among the admitted ones only
stbRegSymAdmittedOnly(self, symbol, symProps, parents) ==
    IF symbol \in DOMAIN self.out
    THEN Raise(self, PySmiSemanticError("Duplicate symbol found", <<symbol>>))
    ELSE IF allParentsExists(self, parents)
    THEN regPostponedSyms(
             [self EXCEPT !.out = DictSet(self.out, symbol, symProps),
                          !.symsOrder = Append(self.symsOrder, symbol)])
    ELSE [self EXCEPT !.postponedSyms =
             Append(self.postponedSyms,
                    [sym |-> symbol, parents |-> parents, symProps |-> symProps])]

stbRegSym(self, symbol, symProps, parents) ==
    IF \/ symbol \in DOMAIN self.out
       \/ \E i \in 1..Len(self.postponedSyms) : self.postponedSyms[i].sym = symbol
    THEN Raise(self, PySmiSemanticError("Duplicate symbol found", <<symbol>>))
    ELSE IF allParentsExists(self, parents)
    THEN regPostponedSyms(
             [self EXCEPT !.out = DictSet(self.out, symbol, symProps),
                          !.symsOrder = Append(self.symsOrder, symbol)])
    ELSE [self EXCEPT !.postponedSyms =
             Append(self.postponedSyms,
                    [sym |-> symbol, parents |-> parents, symProps |-> symProps])]

\* elements of a lowered OID: a number or a (parent, module) reference
OidNum(n) == [k |-> "int", parent |-> <<>>, module |-> <<>>, n |-> n]
OidRef(parent, module) == [k |-> "ref", parent |-> parent, module |-> module, n |-> 0]

\* genOid returns the lowered OID in val and records every symbolic parent
RECURSIVE stbGenOid(_, _)
stbGenOid(self, data) ==
    IF data = <<>> THEN [self |-> self, val |-> <<>>]
    ELSE LET el == Head(data)
             parent == stbTransOpers(el.s)
             self1 == IF el.k = "str"
                      THEN [self EXCEPT !.parentOids = self.parentOids \cup {parent}]
                      ELSE self
             out == IF el.k = "str"
                    THEN OidRef(parent, DictGet(self.importMap, parent, self.moduleName))
                    ELSE OidNum(el.n)
             rest == stbGenOid(self1, Tail(data))
         IN  [self |-> rest.self, val |-> <<out>> \o rest.val]

\* a genIndex that advances the counter on every INDEX element
RECURSIVE stbGenIndexAlwaysCounts(_, _)
stbGenIndexAlwaysCounts(self, indexes) ==
    IF indexes = <<>>
    THEN [self |-> self,
          val |-> [namepart |-> <<"p","y","s","m","i","F","a","k","e","C","o","l">>, fakeIndexes |-> <<>>, fakeSymsSyntax |-> <<>>]]
    ELSE LET idxName == Head(indexes)
             isFake == idxName \in Range(smiv1IdxTypes)
             objType == stbTransOpers(DictGet(stbTypeClasses, idxName, idxName))
             rest == stbGenIndexAlwaysCounts([self EXCEPT !.fakeidx = self.fakeidx + 1],
                                             Tail(indexes))
         IN  IF isFake
             THEN [self |-> rest.self,
                   val |-> [rest.val EXCEPT
                       !.fakeIndexes = <<self.fakeidx>> \o rest.val.fakeIndexes,
                       !.fakeSymsSyntax =
                           <<[type |-> [name |-> <<"M","i","b","T","a","b","l","e","C","o","l","u","m","n">>, module |-> <<>>],
                              subtype |-> objType]>> \o rest.val.fakeSymsSyntax]]
             ELSE rest

\* genIndex: val is (fakeIdxName, fakeIndexes, fakeSymsSyntax)
RECURSIVE stbGenIndex(_, _)
stbGenIndex(self, indexes) ==
    IF indexes = <<>>
    THEN [self |-> self,
          val |-> [namepart |-> <<"p","y","s","m","i","F","a","k","e","C","o","l">>, fakeIndexes |-> <<>>, fakeSymsSyntax |-> <<>>]]
    ELSE LET idxName == Head(indexes)
             isFake == idxName \in Range(smiv1IdxTypes)
             objType == stbTransOpers(DictGet(stbTypeClasses, idxName, idxName))
             self1 == IF isFake THEN [self EXCEPT !.fakeidx = self.fakeidx + 1] ELSE self
             rest == stbGenIndex(self1, Tail(indexes))
         IN  IF isFake
             THEN [self |-> rest.self,
                   val |-> [rest.val EXCEPT
                       !.fakeIndexes = <<self.fakeidx>> \o rest.val.fakeIndexes,
                       !.fakeSymsSyntax =
                           <<[type |-> [name |-> <<"M","i","b","T","a","b","l","e","C","o","l","u","m","n">>, module |-> <<>>],
                              subtype |-> objType]>> \o rest.val.fakeSymsSyntax]]
             ELSE rest

\* genSimpleSyntax: ((objType, module), subtype); the subtype is the list
\* genEnumSpec returns, or '' (the empty sequence here) without one
stbGenSimpleSyntax(self, data) ==
    LET objType == stbTransOpers(DictGet(stbTypeClasses, data.type, data.type))
        module == IF objType \notin Range(baseTypes)
                  THEN DictGet(self.importMap, objType, self.moduleName)
                  ELSE <<>>
        subtype == IF "enumSpec" \in DOMAIN data THEN data.enumSpec ELSE <<>>
    IN  [type |-> [name |-> objType, module |-> module], subtype |-> subtype]

\* genBits: (('Bits', ''), bits)
stbGenBits(bits) == [type |-> [name |-> <<"B","i","t","s">>, module |-> <<>>], subtype |-> bits]

\* isHex / isBinary of a DEFVAL value
isHex(defval) ==
    /\ defval.k = "str"
    /\ defval.s[1] = Apostrophe
    /\ Len(defval.s) >= 2
    /\ SubSeq(defval.s, Len(defval.s) - 1, Len(defval.s)) \in
           {<<Apostrophe, "h">>, <<Apostrophe, "H">>}

isBinary(defval) ==
    /\ defval.k = "str"
    /\ defval.s[1] = Apostrophe
    /\ Len(defval.s) >= 2
    /\ SubSeq(defval.s, Len(defval.s) - 1, Len(defval.s)) \in
           {<<Apostrophe, "b">>, <<Apostrophe, "B">>}

isQuoted(defval) ==
    /\ defval.k = "str"
    /\ defval.s[1] = defval.s[Len(defval.s)]
    /\ defval.s[1] = Quote

\* genDefVal: the text kept in the symbol table, or the list of a bits value
stbGenDefVal(self, defval) ==
    CASE defval.k = "int" -> DefvalStr(str(defval.n))
      [] isHex(defval) ->
           DefvalStr(<<"h","e","x","V","a","l","u","e","=">> \o <<Quote>> \o Slice(defval.s, 1, -2) \o <<Quote>>)
      [] defval.k = "str" /\ ~isHex(defval) /\ isBinary(defval) ->
           LET binval == Slice(defval.s, 1, -2)
               hexval == IF binval # <<>> THEN hex(int(binval, 2)) ELSE <<>>
           IN  DefvalStr(<<"h","e","x","V","a","l","u","e","=">> \o <<Quote>> \o hexval \o <<Quote>>)
      [] defval.k = "list" -> defval
      [] defval.k = "str" /\ ~isHex(defval) /\ ~isBinary(defval) /\ isQuoted(defval) ->
           DefvalStr(dorepr(Slice(defval.s, 1, -1)))
      [] OTHER ->
           IF defval.s \in DOMAIN self.out \/ defval.s \in DOMAIN self.importMap
           THEN DefvalStr(defval.s \o <<".","g","e","t","N","a","m","e","(",")">>)
           ELSE DefvalStr(dorepr(defval.s))

\* the value prepData leaves for an absent INDEX clause (None)
NoIndex == [namepart |-> <<>>, fakeIndexes |-> <<>>, fakeSymsSyntax |-> <<>>]

\* genRow: the row token when the name is a recorded row, else what
\* genSimpleSyntax makes of the name
stbGenRow(self, data) ==
    IF stbTransOpers(data.type) \in self.rows
    THEN [type |-> [name |-> <<"M","i","b","T","a","b","l","e","R","o","w">>, module |-> <<>>], subtype |-> <<>>]
    ELSE stbGenSimpleSyntax(self, data)

\* genConceptualTable: row is what genRow returned for the row name; its
\* type name is recorded in _rows
stbGenConceptualTable(self, row) ==
    [self |-> IF row.type.name # <<>>
              THEN [self EXCEPT !.rows = self.rows \cup {stbTransOpers(row.type.name)}]
              ELSE self,
     val |-> [type |-> [name |-> <<"M","i","b","T","a","b","l","e">>, module |-> <<>>], subtype |-> <<>>]]

\* prepData: the sub-clauses of a declaration lowered left to right (syntax,
\* INDEX, OID) by their handlers; val is the handler's data
stbPrepData(self, declr) ==
    LET syntax == CASE declr.syntax.tag = "SimpleSyntax" ->
                         [self |-> self, val |-> stbGenSimpleSyntax(self, declr.syntax)]
                    [] declr.syntax.tag = "row" ->
                         [self |-> self, val |-> stbGenRow(self, declr.syntax)]
                    [] declr.syntax.tag = "conceptualTable" ->
                         stbGenConceptualTable(self, stbGenRow(self, declr.syntax))
                    [] declr.syntax.tag = "BITS" ->
                         [self |-> self, val |-> stbGenBits(declr.syntax.bits)]
                    [] OTHER ->
                         [self |-> self,
                          val |-> [type |-> [name |-> <<>>, module |-> <<>>], subtype |-> <<>>]]
        index == IF declr.index # <<>>
                 THEN stbGenIndex(syntax.self, declr.index)
                 ELSE [self |-> syntax.self, val |-> NoIndex]
        oid == stbGenOid(index.self, declr.oid)
        defval == IF "defval" \in DOMAIN declr
                  THEN [defval |-> stbGenDefVal(index.self, declr.defval)]
                  ELSE EmptyDict
    IN  [self |-> oid.self,
         val |-> [origName |-> declr.name, syntax |-> syntax.val,
                  augmention |-> declr.augmention, index |-> index.val,
                  oid |-> oid.val, value |-> declr.value] @@ defval]

\* the fake symbols loop of genObjectType, from the i-th fake index on
RECURSIVE stbRegFakeSyms(_, _, _, _)
stbRegFakeSyms(self, index, oid, i) ==
    IF i > Len(index.fakeIndexes) \/ i > Len(index.fakeSymsSyntax) \/ Raised(self)
    THEN self
    ELSE LET fakeIdx == index.fakeIndexes[i]
             fakeName == index.namepart \o str(fakeIdx)
             fakeSymProps == [type |-> "fakeColumn",
                              oid |-> oid \o <<OidNum(fakeIdx)>>,
                              syntax |-> index.fakeSymsSyntax[i],
                              origName |-> fakeName]
         IN  stbRegFakeSyms(stbRegSym(self, fakeName, fakeSymProps, <<>>), index, oid, i + 1)

stbGenObjectType(self, data) ==
    LET pysmiName == stbTransOpers(data.origName)
        symProps == [type |-> "ObjectType", oid |-> data.oid,
                     syntax |-> data.syntax, origName |-> data.origName]
                    @@ (IF "defval" \in DOMAIN data /\ data.defval # DefvalList(<<>>)
                        THEN [defval |-> data.defval] ELSE EmptyDict)
        parents == <<data.syntax.type.name>> \o
                   (IF data.augmention # <<>> THEN <<stbTransOpers(data.augmention)>> ELSE <<>>)
        self1 == IF data.index.fakeIndexes # <<>>
                 THEN stbRegFakeSyms(self, data.index, data.oid, 1)
                 ELSE self
    IN  IF Raised(self1) THEN self1
        ELSE stbRegSym(self1, pysmiName, symProps, parents)

stbGenTrapType(self, data) ==
    LET pysmiName == stbTransOpers(data.origName)
        symProps == [type |-> "NotificationType",
                     oid |-> data.oid \o <<OidNum(0), OidNum(data.value)>>,
                     origName |-> data.origName]
    IN  stbRegSym(self, pysmiName, symProps, <<>>)

stbGenTypeDeclaration(self, data) ==
    LET pysmiName == stbTransOpers(data.origName)
        symProps == [type |-> "TypeDeclaration", syntax |-> data.syntax,
                     origName |-> data.origName]
    IN  IF data.syntax.type.name # <<>>
        THEN stbRegSym(self, pysmiName, symProps, <<data.syntax.type.name>>)
        ELSE self

stbGenValueDeclaration(self, data) ==
    LET pysmiName == stbTransOpers(data.origName)
        symProps == [type |-> "MibIdentifier", oid |-> data.oid,
                     origName |-> data.origName]
    IN  stbRegSym(self, pysmiName, symProps, <<>>)

\* genModuleIdentity, genModuleCompliance, genNotificationGroup,
\* genNotificationType and genObjectGroup, which differ in the type only
stbGenOidClause(self, data, type) ==
    LET pysmiName == stbTransOpers(data.origName)
        symProps == [type |-> type, oid |-> data.oid, origName |-> data.origName]
    IN  stbRegSym(self, pysmiName, symProps, <<>>)

\* handlersTable[declr[0]](self, self.prepData(declr[1:], classmode), classmode)
stbHandle(self, declr) ==
    The({CASE declr.clause = "objectTypeClause" -> stbGenObjectType(p.self, p.val)
           [] declr.clause = "moduleIdentityClause" ->
                stbGenOidClause(p.self, p.val, "ModuleIdentity")
           [] declr.clause = "moduleComplianceClause" ->
                stbGenOidClause(p.self, p.val, "ModuleCompliance")
           [] declr.clause = "notificationGroupClause" ->
                stbGenOidClause(p.self, p.val, "NotificationGroup")
           [] declr.clause = "notificationTypeClause" ->
                stbGenOidClause(p.self, p.val, "NotificationType")
           [] declr.clause = "objectGroupClause" ->
                stbGenOidClause(p.self, p.val, "ObjectGroup")
           [] declr.clause = "trapTypeClause" -> stbGenTrapType(p.self, p.val)
           [] declr.clause = "typeDeclaration" -> stbGenTypeDeclaration(p.self, p.val)
           [] declr.clause = "valueDeclaration" -> stbGenValueDeclaration(p.self, p.val) :
         p \in {stbPrepData(self, declr)}})

\* the state genCode resets at entry
stbReset(self, moduleName) ==
    [self EXCEPT !.rows = {}, !.parentOids = {}, !.symsOrder = <<>>,
                 !.postponedSyms = <<>>, !.importMap = EmptyDict,
                 !.out = EmptyDict, !.moduleName = moduleName, !.exc = NoExc]

\* a check of _parentOids that does not consult the import map
stbUnknownParentOidsLocalOnly(self) ==
    {sym \in self.parentOids : sym \notin DOMAIN self.out}

\* names of _parentOids that are neither registered nor imported
stbUnknownParentOids(self) ==
    {sym \in self.parentOids : sym \notin DOMAIN self.out /\ sym \notin DOMAIN self.importMap}

\* what genCode returns: self._out with its three auxiliary keys
stbSymtab(self) ==
    [syms |-> self.out, symtable_order |-> self.symsOrder, symtable_rows |-> self.rows]

NoSymtab == [syms |-> EmptyDict, symtable_order |-> <<>>, symtable_rows |-> {}]

StbOutcome(e, symtab) == [exc |-> e, returned |-> e.kind = "none", symtab |-> symtab]

\* a genCode call that skips the check of the postponed map
stbGenCodeOutcomesUnchecked(self) ==
    IF stbUnknownParentOids(self) # {}
    THEN {StbOutcome(PySmiSemanticError("Unknown parent symbol", <<sym>>), NoSymtab) :
             sym \in stbUnknownParentOids(self)}
    ELSE {StbOutcome(NoExc, stbSymtab(self))}

\* the end of genCode once the declarations are processed: the error it
\* raises or the table it returns (the set iteration over _parentOids names
\* any one of the unknown parents)
stbGenCodeOutcomes(self) ==
    IF self.postponedSyms # <<>>
    THEN {StbOutcome(PySmiSemanticError("Unknown parents for symbols",
                         [i \in 1..Len(self.postponedSyms) |-> self.postponedSyms[i].sym]),
                     NoSymtab)}
    ELSE IF stbUnknownParentOids(self) # {}
    THEN {StbOutcome(PySmiSemanticError("Unknown parent symbol", <<sym>>), NoSymtab) :
             sym \in stbUnknownParentOids(self)}
    ELSE {StbOutcome(NoExc, stbSymtab(self))}

(***************************************************************************)
(* Input ASTs.  Each scenario draws declarations from a small universe.    *)
(***************************************************************************)
Scenarios == {"fwd", "oid", "rerun", "dup", "types", "defval", "refs", "imports", "rows"}

TypeNames == {<<"A">>, <<"B">>, <<"C">>}

\* type declarations over every parent, an object of a declared type and a
\* value declaration
FwdDecls ==
    {TypeDeclaration(n, p) : n \in TypeNames, p \in TypeNames \cup {<<"I","N","T","E","G","E","R">>}}
    \cup {ObjectType(<<"o">>, <<"A">>, <<>>, <<>>, <<OidName(<<"i","s","o">>), OidInt(1)>>),
          ValueDeclaration(<<"v">>, <<OidName(<<"i","s","o">>), OidInt(2)>>)}

OidNames == {<<"a">>, <<"b">>, <<"c">>}

\* the last sub-identifier each name is declared with
OidSub == (<<"a">> :> 3) @@ (<<"b">> :> 6) @@ (<<"c">> :> 11) @@ (<<"i","m","p","o","r","t","s">> :> 4)

OidDecls ==
    {ValueDeclaration(n, <<OidName(p), OidInt(OidSub[n])>>) :
        n \in OidNames, p \in OidNames \cup {<<"i","s","o">>}}
    \cup {ValueDeclaration(<<"i","m","p","o","r","t","s">>, <<OidName(<<"i","s","o">>), OidInt(OidSub[<<"i","m","p","o","r","t","s">>])>>),
          ValueDeclaration(<<"a">>, <<OidPair(<<"i","s","o">>, 1), OidPair(<<"o","r","g">>, 3)>>),
          TrapType(<<"t">>, <<OidName(<<"a">>)>>, 0),
          TrapType(<<"t">>, <<OidName(<<"b">>)>>, 12)}

RowNames == {<<"r">>, <<"s">>}

RerunDecls ==
    {ObjectType(n, <<"I","N","T","E","G","E","R">>, <<>>, idx, <<OidName(<<"i","s","o">>), OidInt(5)>>) :
        n \in RowNames,
        idx \in {<<>>, <<<<"I","P","A","D","D","R","E","S","S">>>>, <<<<"k">>>>, <<<<"I","N","T","E","G","E","R">>, <<"k">>, <<"N","E","T","W","O","R","K","A","D","D","R","E","S","S">>>>}}
    \cup {ValueDeclaration(<<"p","y","s","m","i","F","a","k","e","C","o","l","1","0","0","1">>, <<OidName(<<"i","s","o">>), OidInt(7)>>)}

\* names that normalise to the same symbol, a type declared twice (once
\* while its first declaration is postponed) and a name a fake column takes
DupDecls ==
    {ValueDeclaration(n, <<OidName(<<"i","s","o">>), OidInt(1)>>) :
        n \in {<<"a","-","b">>, <<"a","_","b">>, <<"i","f">>, <<"p","y","s","m","i","_","i","f">>, <<"p","y","s","m","i","F","a","k","e","C","o","l","1","0","0","0">>}}
    \cup {TypeDeclaration(<<"A">>, p) : p \in {<<"B">>, <<"I","N","T","E","G","E","R">>}}
    \cup {ObjectType(<<"r">>, <<"I","N","T","E","G","E","R">>, <<>>, idx, <<OidName(<<"i","s","o">>), OidInt(5)>>) :
             idx \in {<<<<"I","P","A","D","D","R","E","S","S">>>>, <<<<"I","N","T","E","G","E","R">>, <<"I","P","A","D","D","R","E","S","S">>>>}}

\* module M, which imports type B from module N: types over B and over each
\* other, and objects with a DEFVAL whose base type has to be resolved
TypesDecls ==
    {TypeDeclaration(<<"A">>, p) : p \in {<<"B">>, <<"C">>, <<"I","N","T","E","G","E","R">>}}
    \cup {TypeDeclaration(<<"C">>, <<"A">>)}
    \cup {WithDefval(ObjectType(<<"o">>, t, <<>>, <<>>, <<OidName(<<"i","s","o">>), OidInt(1)>>),
                     DefvalInt(5)) : t \in {<<"A">>, <<"B">>, <<"C">>}}

\* module N, which imports type A from module M and declares B
TypesOtherAsts ==
    {[moduleName |-> <<"N">>, imports |-> ImportsOf(<<<<<<"M">>, <<<<"A">>>>>>>>),
      declarations |->
          <<TypeDeclaration(<<"B">>, p),
            WithDefval(ObjectType(<<"p">>, <<"B">>, <<>>, <<>>, <<OidName(<<"i","s","o">>), OidInt(2)>>),
                       DefvalInt(5))>>] : p \in {<<"A">>, <<"I","N","T","E","G","E","R">>}}

\* Status ::= INTEGER { up(1), down(2) } and v ::= { iso 3 }, which the
\* objects of scenario "defval" refer to
StatusItems == <<EnumItem(<<"u","p">>, 1), EnumItem(<<"d","o","w","n">>, 2)>>

DefvalHeader ==
    <<[TypeDeclaration(<<"S","t","a","t","u","s">>, <<"I","N","T","E","G","E","R">>) EXCEPT
          !.syntax = EnumSyntax(<<"I","N","T","E","G","E","R">>, StatusItems)],
      ValueDeclaration(<<"v">>, <<OidName(<<"i","s","o">>), OidInt(3)>>)>>

DefvalSyntaxes ==
    {SimpleSyntax(<<"S","t","a","t","u","s">>), EnumSyntax(<<"S","t","a","t","u","s">>, <<EnumItem(<<"e","x","t","r","a">>, 3)>>),
     SimpleSyntax(<<"I","N","T","E","G","E","R">>), EnumSyntax(<<"I","N","T","E","G","E","R">>, StatusItems),
     SimpleSyntax(<<"O","C","T","E","T"," ","S","T","R","I","N","G">>), SimpleSyntax(<<"O","B","J","E","C","T"," ","I","D","E","N","T","I","F","I","E","R">>),
     BitsSyntax(<<EnumItem(<<"x">>, 0), EnumItem(<<"y">>, 1)>>)}

\* a number, a hex and a binary literal, two quoted strings, bare
\* identifiers and bits lists
DefvalValues ==
    {DefvalInt(5), DefvalStr(<<"'","1","F","'","H">>), DefvalStr(<<"'","1","0","1","'","B">>),
     DefvalStr(<<Quote>> \o <<"a","b">> \o <<Quote>>), DefvalStr(<<Quote, Quote>>),
     DefvalStr(<<"u","p">>), DefvalStr(<<"z","z">>), DefvalStr(<<"v">>), DefvalStr(<<"x">>), DefvalStr(<<"x","y">>),
     DefvalList(<<<<"x">>>>), DefvalList(<<<<"y">>, <<"x">>>>), DefvalList(<<<<"z","z">>>>)}

\* object s with every syntax and every DEFVAL
DefvalDecls ==
    {WithDefval(WithSyntax(ObjectType(<<"s">>, <<"I","N","T","E","G","E","R">>, <<>>, <<>>,
                                      <<OidName(<<"i","s","o">>), OidInt(1)>>), syntax), defval) :
        syntax \in DefvalSyntaxes, defval \in DefvalValues}

\* module M, which imports ifIndex from module N: clauses that refer to
\* objects, and clauses with text sub-clauses
RefsDecls ==
    {[objects |-> <<<<"i","f","I","n","d","e","x">>, <<"o">>>>, description |-> <<"n"," "," ","d">>] @@
         OidClause("notificationTypeClause", <<"n">>, <<OidName(<<"i","s","o">>), OidInt(1)>>),
     [objects |-> <<<<"n">>>>] @@
         OidClause("notificationGroupClause", <<"n","g">>, <<OidName(<<"i","s","o">>), OidInt(2)>>),
     [objects |-> <<<<"o">>, <<"i","f","I","n","d","e","x">>>>, description |-> <<"o","g"," ","d">>] @@
         OidClause("objectGroupClause", <<"o","g">>, <<OidName(<<"i","s","o">>), OidInt(3)>>),
     [objects |-> <<<<"i","f","I","n","d","e","x">>>>] @@ TrapType(<<"t">>, <<OidName(<<"i","s","o">>)>>, 4),
     [compliances |-> <<[module |-> <<>>, names |-> <<<<"o","g">>>>],
                        [module |-> <<"N">>, names |-> <<<<"x","-","g">>>>]>>] @@
         OidClause("moduleComplianceClause", <<"m","c">>, <<OidName(<<"i","s","o">>), OidInt(5)>>),
     [lastUpdated |-> <<"2","0","2","4","0","1","0","1","0","0","0","0","Z">>, organization |-> <<"o","r","g">>, contactInfo |-> <<"c"," "," ","i">>,
      description |-> <<"m","i"," ","d">>] @@
         OidClause("moduleIdentityClause", <<"m","i">>, <<OidName(<<"i","s","o">>), OidInt(6)>>),
     OidClause("moduleIdentityClause", <<"m","i">>, <<OidName(<<"i","s","o">>), OidInt(6)>>),
     WithUnits(WithDescription(ObjectType(<<"o">>, <<"I","N","T","E","G","E","R">>, <<>>, <<>>,
                                          <<OidName(<<"i","s","o">>), OidInt(7)>>), <<"o"," ","d">>),
               <<"s","e","c","o","n","d","s">>),
     ObjectType(<<"o">>, <<"I","N","T","E","G","E","R">>, <<>>, <<>>, <<OidName(<<"i","s","o">>), OidInt(7)>>)}

\* module M with an IMPORTS clause that the conversion to SNMPv2 applies to
ImportsDecls ==
    {ValueDeclaration(<<"a">>, <<OidName(<<"i","s","o">>), OidInt(3)>>),
     ValueDeclaration(<<"b">>, <<OidName(<<"a">>), OidInt(1)>>)}

\* table t of rows R, its row r, row a that augments r, scalar c of the
\* declared type T, the types R ::= SEQUENCE { ... } and T ::= INTEGER, and
\* a value
RowsDecls ==
    {WithSyntax(ObjectType(<<"t">>, <<>>, <<>>, <<>>, <<OidName(<<"i","s","o">>), OidInt(1)>>),
                ConceptualTable(<<"R">>)),
     WithSyntax(ObjectType(<<"r">>, <<>>, <<>>, <<>>, <<OidName(<<"i","s","o">>), OidInt(2)>>),
                RowSyntax(<<"R">>)),
     WithSyntax(ObjectType(<<"a">>, <<>>, <<"r">>, <<>>, <<OidName(<<"i","s","o">>), OidInt(3)>>),
                RowSyntax(<<"R">>)),
     WithSyntax(ObjectType(<<"c">>, <<>>, <<>>, <<>>, <<OidName(<<"i","s","o">>), OidInt(4)>>),
                RowSyntax(<<"T">>)),
     WithSyntax(TypeDeclaration(<<"R">>, <<>>), [tag |-> "SEQUENCE", type |-> <<>>]),
     TypeDeclaration(<<"T">>, <<"I","N","T","E","G","E","R">>),
     ValueDeclaration(<<"v">>, <<OidName(<<"i","s","o">>), OidInt(5)>>)}

ImportsHeaders ==
    {[moduleName |-> <<"M">>, imports |-> ImportsOf(items), declarations |-> <<>>] :
        items \in {<<>>,
                   <<<<<<"R","F","C","1","1","5","5","-","S","M","I">>, <<<<"C","o","u","n","t","e","r">>, <<"i","n","t","e","r","n","e","t">>>>>>>>,
                   <<<<<<"R","F","C","1","1","5","5","-","S","M","I">>, <<<<"C","o","u","n","t","e","r">>, <<"C","o","u","n","t","e","r">>>>>>,
                     <<<<"S","N","M","P","v","2","-","S","M","I">>, <<<<"C","o","u","n","t","e","r","3","2">>>>>>>>,
                   <<<<<<"A">>, <<<<"x">>>>>>, <<<<"B">>, <<<<"y">>>>>>>>,
                   <<<<<<"B">>, <<<<"y">>>>>>, <<<<"A">>, <<<<"x">>>>>>>>,
                   <<<<<<"A">>, <<<<"x">>>>>>>>}}

\* conversion tables a code generator class may carry: the SMIv1 one, and
\* two in which a replacement is itself an entry of the table (y of B is
\* replaced by z of C, or by z of SNMPv2-TC)
RewriteTables(sc) ==
    IF sc = "imports"
    THEN {convertImportv2} \cup
         {(<<"A">> :> (<<"x">> :> <<<<<<"B">>, <<"y">>>>>>)) @@ (<<"B">> :> (<<"y">> :> <<<<m, <<"z">>>>>>)) :
             m \in {<<"C">>, <<"S","N","M","P","v","2","-","T","C">>}}
    ELSE {convertImportv2}

Universe(sc) ==
    CASE sc = "fwd" -> FwdDecls
      [] sc = "refs" -> RefsDecls
      [] sc = "defval" -> DefvalDecls
      [] sc = "types" -> TypesDecls
      [] sc = "oid" -> OidDecls
      [] sc = "rerun" -> RerunDecls
      [] sc = "dup" -> DupDecls
      [] sc = "imports" -> ImportsDecls
      [] sc = "rows" -> RowsDecls

EmptyAst(moduleName) ==
    [moduleName |-> moduleName, imports |-> <<>>, declarations |-> <<>>]

\* the module compiled between two runs of the first AST
OtherAsts ==
    {[moduleName |-> <<"N">>, imports |-> <<>>,
      declarations |-> <<ObjectType(<<"x">>, <<"I","N","T","E","G","E","R">>, <<>>, idx, <<OidName(<<"i","s","o">>), OidInt(9)>>)>>] :
        idx \in {<<>>, <<<<"I","P","A","D","D","R","E","S","S">>>>}}

\* the module header of the AST whose declarations a scenario draws
FirstAsts(sc) ==
    IF sc = "types"
    THEN {[moduleName |-> <<"M">>, imports |-> ImportsOf(<<<<<<"N">>, <<<<"B">>>>>>>>), declarations |-> <<>>]}
    ELSE IF sc = "refs"
    THEN {[moduleName |-> <<"M">>, imports |-> ImportsOf(<<<<<<"N">>, <<<<"i","f","I","n","d","e","x">>>>>>>>), declarations |-> <<>>]}
    ELSE IF sc = "defval"
    THEN {[moduleName |-> <<"M">>, imports |-> <<>>, declarations |-> DefvalHeader]}
    ELSE IF sc = "imports"
    THEN ImportsHeaders
    ELSE {EmptyAst(<<"M">>)}

\* the ASTs of the genCode calls after the first
LaterAsts(sc) ==
    IF sc = "types" THEN {firstAst} \cup TypesOtherAsts
    ELSE {firstAst} \cup OtherAsts

\* the genTexts option of the DG genCode calls (absent counts as False)
GenTextsOptions(sc) == IF sc = "refs" THEN BOOLEAN ELSE {FALSE}

RunsAllowed(sc) == IF sc \in {"rerun", "types"} THEN MaxRuns ELSE 1

(***************************************************************************)
(* JsonCodeGen                                                             *)
(***************************************************************************)
dgConstImports ==
    (<<"S","N","M","P","v","2","-","S","M","I">> :> <<<<"i","s","o">>, <<"N","O","T","I","F","I","C","A","T","I","O","N","-","T","Y","P","E">>, <<"M","O","D","U","L","E","-","I","D","E","N","T","I","T","Y">>,
                        <<"O","B","J","E","C","T","-","T","Y","P","E">>, <<"O","B","J","E","C","T","-","I","D","E","N","T","I","T","Y">>>>) @@
    (<<"S","N","M","P","v","2","-","T","C">> :> <<<<"D","i","s","p","l","a","y","S","t","r","i","n","g">>, <<"T","E","X","T","U","A","L","-","C","O","N","V","E","N","T","I","O","N">>>>) @@
    (<<"S","N","M","P","v","2","-","C","O","N","F">> :> <<<<"M","O","D","U","L","E","-","C","O","M","P","L","I","A","N","C","E">>, <<"N","O","T","I","F","I","C","A","T","I","O","N","-","G","R","O","U","P">>>>)

dgTypeClasses ==
    (<<"N","e","t","w","o","r","k","A","d","d","r","e","s","s">> :> <<"I","p","A","d","d","r","e","s","s">>) @@
    (<<"n","u","l","l","S","p","e","c","i","f","i","c">> :> <<"z","e","r","o","D","o","t","Z","e","r","o">>) @@
    (<<"i","p","R","o","u","t","i","n","g","T","a","b","l","e">> :> <<"i","p","R","o","u","t","e","T","a","b","l","e">>) @@
    (<<"s","n","m","p","E","n","a","b","l","e","A","u","t","h","T","r","a","p","s">> :> <<"s","n","m","p","E","n","a","b","l","e","A","u","t","h","e","n","T","r","a","p","s">>)

\* an ordered dict is a sequence of [key, val]; d[k] = v keeps the place of
\* a key that is already there
OrderedDictSet(d, k, v) ==
    IF \E i \in 1..Len(d) : d[i].key = k
    THEN [i \in 1..Len(d) |-> IF d[i].key = k THEN [key |-> k, val |-> v] ELSE d[i]]
    ELSE Append(d, [key |-> k, val |-> v])

\* JsonCodeGen.__init__; outDict is genCode's document under construction
dgInit ==
    [rows |-> {}, seenSyms |-> {}, importMap |-> EmptyDict, out |-> EmptyDict,
     moduleName |-> <<"D","U","M","M","Y">>, symbolTable |-> EmptyDict, fakeidx |-> fakeidx,
     genRules |-> [text |-> TRUE], convertImportv2 |-> convertImportv2,
     outDict |-> <<>>, exc |-> NoExc]

dgTransOpers(symbol) ==
    [i \in 1..Len(symbol) |-> IF symbol[i] = "-" THEN "_" ELSE symbol[i]]

\* the loop over sorted(imports) of genImports: _seenSyms, _importMap and
\* the imports record, module by module
RECURSIVE dgImportsLoop(_, _, _, _)
dgImportsLoop(self, imports, modules, outDict) ==
    IF modules = <<>>
    THEN [self EXCEPT !.outDict = <<[key |-> <<"i","m","p","o","r","t","s">>, val |-> outDict]>>]
    ELSE LET module == Head(modules)
             symbols == Range(imports[module])
             names == {dgTransOpers(s) : s \in symbols}
             self1 == [self EXCEPT
                          !.seenSyms = self.seenSyms \cup names,
                          !.importMap = [s \in DOMAIN self.importMap \cup names |->
                                            IF s \in names THEN module ELSE self.importMap[s]]]
         IN  IF symbols = {} THEN dgImportsLoop(self, imports, Tail(modules), outDict)
             ELSE dgImportsLoop(self1, imports, Tail(modules),
                      [outDict EXCEPT !.modules =
                          Append(outDict.modules, [module |-> module, symbols |-> symbols])])

dgGenImports(self, imports) ==
    LET done == convertImports(self.convertImportv2, dgConstImports, imports)
        merged == ImportsDict(done.imports)
    IN  IF done.exc.kind # "none" THEN Raise(self, done.exc)
        ELSE dgImportsLoop(self, merged, sorted(DOMAIN merged),
                           [class |-> "imports", modules |-> <<>>])

dgRegSym(self, symbol, outDict) ==
    IF symbol \in self.seenSyms /\ symbol \notin DOMAIN self.importMap
    THEN Raise(self, PySmiSemanticError("Duplicate symbol found", <<symbol>>))
    ELSE [self EXCEPT !.seenSyms = self.seenSyms \cup {symbol},
                      !.out = DictSet(self.out, symbol, outDict)]

\* a genNumericOid that emits the parent's own sub-identifiers without
\* resolving the parent's parents
RECURSIVE genNumericOidShallow(_, _, _)
genNumericOidShallow(self, oid, depth) ==
    IF oid = <<>> THEN [exc |-> NoExc, val |-> <<>>]
    ELSE LET part == Head(oid)
             rest == genNumericOidShallow(self, Tail(oid), depth)
             entry == self.symbolTable[part.module].syms[part.parent]
             first == IF part.k # "ref" THEN <<part.n>>
                      ELSE IF part.parent = <<"i","s","o">> THEN <<1>>
                      ELSE IF depth > 1 THEN <<>>
                      ELSE genNumericOidShallow(self, entry.oid, depth + 1).val
         IN  [exc |-> NoExc, val |-> first \o rest.val]

\* genNumericOid; depth is the number of genNumericOid frames on the stack
RECURSIVE genNumericOid(_, _, _)
genNumericOid(self, oid, depth) ==
    IF depth > RecursionLimit THEN [exc |-> RecursionError, val |-> <<>>]
    ELSE IF oid = <<>> THEN [exc |-> NoExc, val |-> <<>>]
    ELSE LET part == Head(oid)
             first ==
                 IF part.k = "ref"
                 THEN IF part.parent = <<"i","s","o">> THEN [exc |-> NoExc, val |-> <<1>>]
                      ELSE IF part.module \notin DOMAIN self.symbolTable
                      THEN [exc |-> PySmiSemanticError("no module in symbolTable", <<part.module>>),
                            val |-> <<>>]
                      ELSE IF part.parent \notin DOMAIN self.symbolTable[part.module].syms
                      THEN [exc |-> PySmiSemanticError("no symbol in module", <<part.parent, part.module>>),
                            val |-> <<>>]
                      ELSE IF "oid" \notin DOMAIN self.symbolTable[part.module].syms[part.parent]
                      THEN [exc |-> KeyError(<<"o","i","d">>), val |-> <<>>]
                      ELSE genNumericOid(self, self.symbolTable[part.module].syms[part.parent].oid,
                                         depth + 1)
                 ELSE [exc |-> NoExc, val |-> <<part.n>>]
         IN  IF first.exc.kind # "none" THEN first
             ELSE LET rest == genNumericOid(self, Tail(oid), depth)
                  IN  IF rest.exc.kind # "none" THEN rest
                      ELSE [exc |-> NoExc, val |-> first.val \o rest.val]

\* the syntax getBaseType reads from an entry without one: (('', ''), '')
NoSymSyntax == [type |-> [name |-> <<>>, module |-> <<>>], subtype |-> <<>>]

\* a getBaseType in which the subtype of the child always replaces the
\* one of its parent when they are not both lists
RECURSIVE getBaseTypeChildOnly(_, _, _, _)
getBaseTypeChildOnly(self, symName, module, depth) ==
    IF depth > RecursionLimit
    THEN [self |-> self, exc |-> RecursionError, val |-> NoSymSyntax]
    ELSE IF module \notin DOMAIN self.symbolTable
    THEN [self |-> self, exc |-> PySmiSemanticError("no module in symbolTable", <<module>>),
          val |-> NoSymSyntax]
    ELSE IF symName \notin DOMAIN self.symbolTable[module].syms
    THEN [self |-> self, exc |-> PySmiSemanticError("no symbol in module", <<symName, module>>),
          val |-> NoSymSyntax]
    ELSE LET entry == self.symbolTable[module].syms[symName]
             syntax == IF "syntax" \in DOMAIN entry THEN entry.syntax ELSE NoSymSyntax
             symType == syntax.type
         IN  IF symType.name = <<>>
             THEN [self |-> self, exc |-> PySmiSemanticError("unknown type for symbol", <<symName>>),
                   val |-> NoSymSyntax]
             ELSE IF symType.name \in Range(baseTypes)
             THEN [self |-> self, exc |-> NoExc, val |-> syntax]
             ELSE LET base == getBaseTypeChildOnly(self, symType.name, symType.module, depth + 1)
                      extended == syntax.subtype \o base.val.subtype
                      symSubtype == IF base.val.subtype # <<>> /\ syntax.subtype # <<>>
                                    THEN extended
                                    ELSE syntax.subtype
                      self1 == IF base.val.subtype # <<>> /\ syntax.subtype # <<>>
                               THEN [base.self EXCEPT
                                        !.symbolTable[module].syms[symName].syntax.subtype = extended]
                               ELSE base.self
                  IN  IF base.exc.kind # "none" THEN base
                      ELSE [self |-> self1, exc |-> NoExc,
                            val |-> [type |-> base.val.type, subtype |-> symSubtype]]

\* getBaseType: val is (baseSymType, symSubtype); depth is the number of
\* getBaseType frames on the stack.  A subtype is a list exactly when it is
\* not empty here.  `symSubtype += baseSymSubtype` extends the list held by
\* the symbol table entry.
RECURSIVE getBaseType(_, _, _, _)
getBaseType(self, symName, module, depth) ==
    IF depth > RecursionLimit
    THEN [self |-> self, exc |-> RecursionError, val |-> NoSymSyntax]
    ELSE IF module \notin DOMAIN self.symbolTable
    THEN [self |-> self, exc |-> PySmiSemanticError("no module in symbolTable", <<module>>),
          val |-> NoSymSyntax]
    ELSE IF symName \notin DOMAIN self.symbolTable[module].syms
    THEN [self |-> self, exc |-> PySmiSemanticError("no symbol in module", <<symName, module>>),
          val |-> NoSymSyntax]
    ELSE LET entry == self.symbolTable[module].syms[symName]
             syntax == IF "syntax" \in DOMAIN entry THEN entry.syntax ELSE NoSymSyntax
             symType == syntax.type
         IN  IF symType.name = <<>>
             THEN [self |-> self, exc |-> PySmiSemanticError("unknown type for symbol", <<symName>>),
                   val |-> NoSymSyntax]
             ELSE IF symType.name \in Range(baseTypes)
             THEN [self |-> self, exc |-> NoExc, val |-> syntax]
             ELSE LET base == getBaseType(self, symType.name, symType.module, depth + 1)
                      extended == syntax.subtype \o base.val.subtype
                      symSubtype == IF base.val.subtype # <<>>
                                    THEN IF syntax.subtype # <<>> THEN extended
                                         ELSE base.val.subtype
                                    ELSE syntax.subtype
                      self1 == IF base.val.subtype # <<>> /\ syntax.subtype # <<>>
                               THEN [base.self EXCEPT
                                        !.symbolTable[module].syms[symName].syntax.subtype = extended]
                               ELSE base.self
                  IN  IF base.exc.kind # "none" THEN base
                      ELSE [self |-> self1, exc |-> NoExc,
                            val |-> [type |-> base.val.type, subtype |-> symSubtype]]

\* str() of a tuple of ints
strTuple(t) ==
    IF Len(t) = 1 THEN <<"(">> \o str(t[1]) \o <<",",")">>
    ELSE <<"(">> \o join(<<","," ">>, [i \in 1..Len(t) |-> str(t[i])]) \o <<")">>

\* dict(items) of a list of (name, value) pairs: a later pair wins
dictOf(items) ==
    [n \in {items[i].name : i \in 1..Len(items)} |->
        items[CHOOSE i \in 1..Len(items) :
                  /\ items[i].name = n
                  /\ \A j \in (i + 1)..Len(items) : items[j].name # n].value]

\* iterating a DEFVAL value: the names of a list, the characters of a str
defvalElements(defval) ==
    IF defval.k = "list" THEN defval.l
    ELSE [i \in 1..Len(defval.s) |-> <<defval.s[i]>>]

\* `defvalType != 'OctetString'`, where defvalType is the (type, subtype)
\* tuple getBaseType returned: a tuple never equals a str
defvalTypeIsNot(defvalType, typeName) == TRUE

\* the value a DEFVAL clause carries when the declaration has none
NoDefval == [k |-> "none"]

\* {'default': outDict}
Default(value, format) == [default |-> [value |-> value, format |-> format]]

\* the symbol branch of genDefVal (OID name, enumeration member, bits)
genDefValSymbol(self, defval, defvalType, objname) ==
    LET base == defvalType.type.name
        ownSyms == self.symbolTable[self.moduleName].syms
        name == IF defval.k = "list" THEN <<>> ELSE defval.s
        module == DictGet(self.importMap, name, self.moduleName)
        bits == dictOf(defvalType.subtype)
        elements == defvalElements(defval)
        unknownBits == {i \in 1..Len(elements) : elements[i] \notin DOMAIN bits}
        noSymbol == PySmiSemanticError("no symbol in module", <<name, module>>)
    IN  IF base = <<"O","b","j","e","c","t","I","d","e","n","t","i","f","i","e","r">> /\ defval.k = "list"
        THEN [exc |-> TypeError, val |-> EmptyDict]
        ELSE IF base = <<"O","b","j","e","c","t","I","d","e","n","t","i","f","i","e","r">> /\
                (name \in DOMAIN ownSyms \/ name \in DOMAIN self.importMap)
        THEN IF \/ module \notin DOMAIN self.symbolTable
                \/ name \notin DOMAIN self.symbolTable[module].syms
                \/ "oid" \notin DOMAIN self.symbolTable[module].syms[name]
             THEN [exc |-> noSymbol, val |-> EmptyDict]
             ELSE LET num == genNumericOid(self, self.symbolTable[module].syms[name].oid, 1)
                  IN  IF num.exc.kind # "none" THEN [exc |-> noSymbol, val |-> EmptyDict]
                      ELSE [exc |-> NoExc, val |-> Default(strTuple(num.val), "oid")]
        ELSE IF base \in {<<"I","n","t","e","g","e","r","3","2">>, <<"I","n","t","e","g","e","r">>} /\ defvalType.subtype # <<>> /\
                defval.k = "list"
        THEN [exc |-> TypeError, val |-> EmptyDict]
        ELSE IF base \in {<<"I","n","t","e","g","e","r","3","2">>, <<"I","n","t","e","g","e","r">>} /\ defvalType.subtype # <<>> /\
                name \in DOMAIN dictOf(defvalType.subtype)
        THEN [exc |-> NoExc, val |-> Default(name, "enum")]
        ELSE IF base = <<"B","i","t","s">>
        THEN IF unknownBits # {}
             THEN [exc |-> PySmiSemanticError("no such bit for symbol",
                               <<elements[CHOOSE i \in unknownBits :
                                              \A j \in unknownBits : i <= j], objname>>),
                   val |-> EmptyDict]
             ELSE [exc |-> NoExc,
                   val |-> [value |-> [b \in Range(elements) |-> bits[b]], format |-> "bits"]]
        ELSE [exc |-> PySmiSemanticError("unknown type for defval of symbol",
                          <<base, name, objname>>),
              val |-> EmptyDict]

\* genDefVal(data, objname=name): val is the dict genObjectType puts under
\* 'default'; an empty dict stands for no default
genDefVal(self, defval, objname) ==
    IF defval = NoDefval THEN [self |-> self, exc |-> NoExc, val |-> EmptyDict]
    ELSE LET t == getBaseType(self, objname, self.moduleName, 1)
             defvalType == t.val
             isInt == defvalType.type.name \in {<<"I","n","t","e","g","e","r","3","2">>, <<"I","n","t","e","g","e","r">>}
             r == CASE defval.k = "int" ->
                         [exc |-> NoExc, val |-> Default(defval.n, "decimal")]
                    [] isHex(defval) ->
                         IF ~isInt
                         THEN [exc |-> NoExc, val |-> Default(Slice(defval.s, 1, -2), "hex")]
                         ELSE IF Slice(defval.s, 1, -2) = <<>>
                         THEN [exc |-> ValueError, val |-> EmptyDict]
                         ELSE [exc |-> NoExc,
                               val |-> Default(str(int(Slice(defval.s, 1, -2), 16)), "hex")]
                    [] defval.k = "str" /\ ~isHex(defval) /\ isBinary(defval) ->
                         LET binval == Slice(defval.s, 1, -2)
                             hexval == IF binval # <<>> THEN hex(int(binval, 2)) ELSE <<>>
                         IN  IF isInt
                             THEN [exc |-> NoExc,
                                   val |-> Default(str(int(IF binval # <<>> THEN binval ELSE <<"0">>, 2)),
                                                   "bin")]
                             ELSE [exc |-> NoExc, val |-> Default(hexval, "hex")]
                    [] defval.k = "str" /\ ~isHex(defval) /\ ~isBinary(defval) /\ isQuoted(defval) ->
                         IF Slice(defval.s, 1, -1) = <<>> /\ defvalTypeIsNot(defvalType, <<"O","c","t","e","t","S","t","r","i","n","g">>)
                         THEN [exc |-> NoExc, val |-> EmptyDict]
                         ELSE [exc |-> NoExc, val |-> Default(Slice(defval.s, 1, -1), "string")]
                    [] OTHER -> genDefValSymbol(t.self, defval, defvalType, objname)
         IN  IF t.exc.kind # "none" THEN [self |-> t.self, exc |-> t.exc, val |-> EmptyDict]
             ELSE [self |-> t.self, exc |-> r.exc, val |-> r.val]

\* the loop of genOid: the lowered OID and the last symbolic parent
RECURSIVE dgLowerOid(_, _)
dgLowerOid(self, data) ==
    IF data = <<>> THEN [out |-> <<>>, parent |-> <<>>]
    ELSE LET el == Head(data)
             rest == dgLowerOid(self, Tail(data))
             p == dgTransOpers(el.s)
         IN  IF el.k = "str"
             THEN [out |-> <<OidRef(p, DictGet(self.importMap, p, self.moduleName))>> \o rest.out,
                   parent |-> IF rest.parent # <<>> THEN rest.parent ELSE p]
             ELSE [out |-> <<OidNum(el.n)>> \o rest.out, parent |-> rest.parent]

\* genOid: (dotted OID string, parent), or the exception of genNumericOid
dgGenOid(self, data) ==
    LET low == dgLowerOid(self, data)
        num == genNumericOid(self, low.out, 1)
    IN  [exc |-> num.exc,
         val |-> [oidStr |-> join(<<".">>, [i \in 1..Len(num.val) |-> str(num.val[i])]),
                  parentOid |-> low.parent]]

\* genSimpleSyntax: ('MibScalar', outDict); the subtype is what genEnumSpec
\* returns, {'enumeration': dict(items)}
dgGenSimpleSyntax(data) ==
    LET objType == dgTransOpers(DictGet(dgTypeClasses, data.type, data.type))
        constraints == IF "enumSpec" \in DOMAIN data
                       THEN [constraints |-> [enumeration |-> dictOf(data.enumSpec)]]
                       ELSE EmptyDict
    IN  [kind |-> <<"M","i","b","S","c","a","l","a","r">>,
         outDict |-> [type |-> objType, class |-> "type"] @@ constraints]

\* genBits: ('Bits', dict(bits))
dgGenBits(bits) == [kind |-> <<"B","i","t","s">>, outDict |-> dictOf(bits)]

\* the built-in class `object`, which genFakeSyms uses as a dict key
BuiltinObject == <<"<class 'object'>">>

\* genFakeSyms returns a two-key dict; unpacking it yields its keys
genFakeSyms(self, fakeIdx, idxType) ==
    [fakeSymStr |-> <<"m","o","d","u","l","e">>, idxName |-> BuiltinObject]

\* genTableIndex: val is idxStrlist
RECURSIVE genTableIndex(_, _)
genTableIndex(self, indexes) ==
    IF indexes = <<>> THEN [self |-> self, val |-> <<>>]
    ELSE LET isFake == Head(indexes) \in Range(smiv1IdxTypes)
             idxName == IF isFake
                        THEN genFakeSyms(self, self.fakeidx, Head(indexes)).idxName
                        ELSE Head(indexes)
             self1 == IF isFake THEN [self EXCEPT !.fakeidx = self.fakeidx + 1] ELSE self
             index == [module |-> DictGet(self.importMap, idxName, self.moduleName),
                       object |-> idxName]
             rest == genTableIndex(self1, Tail(indexes))
         IN  [self |-> rest.self, val |-> <<index>> \o rest.val]

\* re.sub('\s+', ' ', text)
RECURSIVE reSubSpaces(_)
reSubSpaces(text) ==
    IF text = <<>> THEN <<>>
    ELSE IF Head(text) \notin {" ", "\n", "\t"} THEN <<Head(text)>> \o reSubSpaces(Tail(text))
    ELSE IF Len(text) > 1 /\ text[2] \in {" ", "\n", "\t"} THEN reSubSpaces(Tail(text))
    ELSE <<" ">> \o reSubSpaces(Tail(text))

\* genUnits, genDescription, genLastUpdated, genOrganization, genContactInfo
\* on the text of a sub-clause; '' for a sub-clause the declaration lacks
genText(declr, clause) ==
    IF clause \in DOMAIN declr THEN reSubSpaces(declr[clause]) ELSE <<>>

\* genObjects
genObjects(objects) == [i \in 1..Len(objects) |-> dgTransOpers(objects[i])]

\* genCompliances: each complianceModule is (module name or '', names)
RECURSIVE genCompliances(_, _)
genCompliances(self, data) ==
    IF data = <<>> THEN <<>>
    ELSE LET complianceModule == Head(data)
             name == IF complianceModule.module # <<>> THEN complianceModule.module
                     ELSE self.moduleName
         IN  [i \in 1..Len(complianceModule.names) |->
                 [object |-> dgTransOpers(complianceModule.names[i]), module |-> name]]
             \o genCompliances(self, Tail(data))

\* [{'module': self.moduleName[0], 'object': self.transOpers(obj)} for obj in objects]
objectRefs(self, objects) ==
    [i \in 1..Len(objects) |->
        [module |-> self.moduleName, object |-> dgTransOpers(objects[i])]]

\* genRow: the row token when the name is among the rows of the module's
\* symbol table, else what genSimpleSyntax makes of the name; '' is the
\* empty dict here
dgGenRow(self, data) ==
    IF dgTransOpers(data.type) \in self.symbolTable[self.moduleName].symtable_rows
    THEN [kind |-> <<"M","i","b","T","a","b","l","e","R","o","w">>, outDict |-> EmptyDict]
    ELSE dgGenSimpleSyntax(data)

\* genConceptualTable: row is what genRow returned; row[1][-2:] of a
\* non-empty dict raises (TypeError, or KeyError from Python 3.12 on)
dgGenConceptualTable(row) ==
    IF row.outDict # EmptyDict
    THEN [exc |-> [kind |-> "TypeError", text |-> "unhashable type: 'slice'", syms |-> <<>>],
          val |-> row]
    ELSE [exc |-> NoExc, val |-> [kind |-> <<"M","i","b","T","a","b","l","e">>, outDict |-> EmptyDict]]

\* prepData: syntax, INDEX and OID lowered left to right; an exception of a
\* sub-clause handler leaves the clause handler uncalled
dgPrepData(self, declr) ==
    LET syntax == CASE declr.syntax.tag = "SimpleSyntax" ->
                         [exc |-> NoExc, val |-> dgGenSimpleSyntax(declr.syntax)]
                    [] declr.syntax.tag = "row" ->
                         [exc |-> NoExc, val |-> dgGenRow(self, declr.syntax)]
                    [] declr.syntax.tag = "conceptualTable" ->
                         dgGenConceptualTable(dgGenRow(self, declr.syntax))
                    [] declr.syntax.tag = "BITS" ->
                         [exc |-> NoExc, val |-> dgGenBits(declr.syntax.bits)]
                    [] OTHER ->
                         [exc |-> NoExc,
                          val |-> [kind |-> <<>>, outDict |-> [type |-> <<>>, class |-> ""]]]
        index == IF declr.index # <<>>
                 THEN genTableIndex(self, declr.index)
                 ELSE [self |-> self, val |-> <<>>]
        oid == IF declr.oid # <<>>
               THEN dgGenOid(index.self, declr.oid)
               ELSE [exc |-> NoExc, val |-> [oidStr |-> <<>>, parentOid |-> <<>>]]
    IN  [self |-> IF syntax.exc.kind # "none" THEN Raise(self, syntax.exc)
                  ELSE IF oid.exc.kind # "none" THEN Raise(index.self, oid.exc)
                  ELSE index.self,
         val |-> [name |-> declr.name, syntax |-> syntax.val,
                  augmention |-> declr.augmention, index |-> index.val,
                  oid |-> oid.val, value |-> declr.value,
                  defval |-> IF "defval" \in DOMAIN declr THEN declr.defval ELSE NoDefval,
                  objects |-> IF "objects" \in DOMAIN declr
                              THEN genObjects(declr.objects) ELSE <<>>,
                  compliances |-> IF "compliances" \in DOMAIN declr
                                  THEN genCompliances(self, declr.compliances) ELSE <<>>,
                  units |-> genText(declr, "units"),
                  description |-> genText(declr, "description"),
                  lastUpdated |-> genText(declr, "lastUpdated"),
                  organization |-> genText(declr, "organization"),
                  contactInfo |-> genText(declr, "contactInfo")]]

dgGenObjectType(self, data) ==
    The({
    LET name == dgTransOpers(data.name)
        outDict ==
            [name |-> name, oid |-> data.oid.oidStr, class |-> "objecttype"]
            @@ (IF data.syntax.outDict # EmptyDict
                THEN [syntax |-> data.syntax.outDict] ELSE EmptyDict)
            @@ (IF defval.val # EmptyDict THEN [default |-> defval.val] ELSE EmptyDict)
            @@ (IF data.units # <<>> THEN [units |-> data.units] ELSE EmptyDict)
            @@ (IF data.index # <<>> THEN [indices |-> data.index] ELSE EmptyDict)
            @@ (IF data.augmention # <<>>
                THEN [augmention |-> [name |-> name, module |-> self.moduleName,
                                      object |-> dgTransOpers(data.augmention)]]
                ELSE EmptyDict)
            @@ (IF self.genRules.text /\ data.description # <<>>
                THEN [description |-> data.description] ELSE EmptyDict)
    IN  IF defval.exc.kind # "none" THEN Raise(defval.self, defval.exc)
        ELSE dgRegSym(defval.self, name, outDict) :
    defval \in {genDefVal(self, data.defval, dgTransOpers(data.name))}})

dgGenTrapType(self, data) ==
    LET name == dgTransOpers(data.name)
        outDict == [name |-> name,
                    oid |-> data.oid.oidStr \o <<"0",".">> \o str(data.value),
                    class |-> "notificationtype"]
                   @@ (IF data.objects # <<>>
                       THEN [objects |-> objectRefs(self, data.objects)] ELSE EmptyDict)
                   @@ (IF self.genRules.text /\ data.description # <<>>
                       THEN [description |-> data.description] ELSE EmptyDict)
    IN  dgRegSym(self, name, outDict)

\* genNotificationGroup, genNotificationType and genObjectGroup, which
\* differ in the class only
dgGenObjectsClause(self, data, class) ==
    LET name == dgTransOpers(data.name)
        outDict == [name |-> name, oid |-> data.oid.oidStr, class |-> class]
                   @@ (IF data.objects # <<>>
                       THEN [objects |-> objectRefs(self, data.objects)] ELSE EmptyDict)
                   @@ (IF self.genRules.text /\ data.description # <<>>
                       THEN [description |-> data.description] ELSE EmptyDict)
    IN  dgRegSym(self, name, outDict)

dgGenModuleCompliance(self, data) ==
    LET name == dgTransOpers(data.name)
        outDict == [name |-> name, oid |-> data.oid.oidStr, class |-> "modulecompliance"]
                   @@ (IF data.compliances # <<>>
                       THEN [modulecompliance |-> data.compliances] ELSE EmptyDict)
                   @@ (IF self.genRules.text /\ data.description # <<>>
                       THEN [description |-> data.description] ELSE EmptyDict)
    IN  dgRegSym(self, name, outDict)

dgGenModuleIdentity(self, data) ==
    LET name == dgTransOpers(data.name)
        text(field, value) == IF self.genRules.text /\ value # <<>>
                              THEN field :> value ELSE EmptyDict
        outDict == [name |-> name, oid |-> data.oid.oidStr, class |-> "moduleidentity"]
                   @@ text("lastupdated", data.lastUpdated)
                   @@ text("organization", data.organization)
                   @@ text("contactinfo", data.contactInfo)
                   @@ text("description", data.description)
    IN  dgRegSym(self, name, outDict)

\* genTypeDeclaration with the declaration genTypeDeclarationRHS returns for
\* a plain syntax: (parentType, {'type': ...})
dgGenTypeDeclaration(self, data) ==
    LET outDict == [name |-> data.name, class |-> "type",
                    type |-> data.syntax.outDict.type]
    IN  IF data.syntax.kind # <<>>
        THEN dgRegSym(self, dgTransOpers(data.name), outDict)
        ELSE self

dgGenValueDeclaration(self, data) ==
    LET name == dgTransOpers(data.name)
        outDict == [name |-> name, oid |-> data.oid.oidStr, class |-> "objectidentity"]
    IN  dgRegSym(self, name, outDict)

\* handlersTable[declr[0]](self, self.prepData(declr[1:]))
dgHandle(self, declr) ==
    The({IF Raised(p.self) THEN p.self
        ELSE CASE declr.clause = "objectTypeClause" -> dgGenObjectType(p.self, p.val)
               [] declr.clause = "moduleIdentityClause" -> dgGenModuleIdentity(p.self, p.val)
               [] declr.clause = "moduleComplianceClause" ->
                    dgGenModuleCompliance(p.self, p.val)
               [] declr.clause = "notificationGroupClause" ->
                    dgGenObjectsClause(p.self, p.val, "notificationgroup")
               [] declr.clause = "notificationTypeClause" ->
                    dgGenObjectsClause(p.self, p.val, "notificationtype")
               [] declr.clause = "objectGroupClause" ->
                    dgGenObjectsClause(p.self, p.val, "objectgroup")
               [] declr.clause = "trapTypeClause" -> dgGenTrapType(p.self, p.val)
               [] declr.clause = "typeDeclaration" -> dgGenTypeDeclaration(p.self, p.val)
               [] declr.clause = "valueDeclaration" -> dgGenValueDeclaration(p.self, p.val) :
         p \in {dgPrepData(self, declr)}})

\* the state genCode resets at entry
dgReset(self, moduleName, symtabs) ==
    [self EXCEPT !.symbolTable = symtabs, !.rows = {}, !.seenSyms = {},
                 !.importMap = EmptyDict, !.out = EmptyDict,
                 !.moduleName = moduleName, !.outDict = <<>>, !.exc = NoExc]

\* the emission loop of genCode over _symtable_order, from its i-th name on
RECURSIVE dgEmit(_, _, _)
dgEmit(self, order, i) ==
    IF i > Len(order) THEN self
    ELSE IF order[i] \notin DOMAIN self.out
    THEN Raise(self, PySmiCodegenError("No generated code for symbol", <<order[i]>>))
    ELSE dgEmit([self EXCEPT !.outDict = OrderedDictSet(self.outDict, order[i], self.out[order[i]])],
                order, i + 1)

\* outDict['meta'] when comments are passed
dgMeta(self, comments) ==
    IF comments
    THEN [self EXCEPT !.outDict =
             OrderedDictSet(self.outDict, <<"m","e","t","a">>,
                            [comments |-> "comments", module |-> self.moduleName])]
    ELSE self

DgOutcome(e, doc) == [exc |-> e, returned |-> e.kind = "none", doc |-> doc]

(***************************************************************************)
(* The genCode calls, one step per declaration.                            *)
(***************************************************************************)
InitFor(sc) ==
    /\ \E table \in RewriteTables(sc) :
          /\ stb = [stbInit EXCEPT !.convertImportv2 = table]
          /\ dg = [dgInit EXCEPT !.convertImportv2 = table]
    /\ scenario = sc
    /\ ast = EmptyAst(<<"D","U","M","M","Y">>)
    /\ astImports = <<>>
    /\ building = FALSE
    /\ pc = "idle"
    /\ pos = 0
    /\ symbolTable = EmptyDict
    /\ stbResult = StbOutcome(NoExc, NoSymtab)
    /\ dgResult = DgOutcome(NoExc, <<>>)
    /\ runs = 0
    /\ firstAst = EmptyAst(<<"D","U","M","M","Y">>)
    /\ firstResult = StbOutcome(NoExc, NoSymtab)

\* the end of an STB genCode call, by return or by exception
StbEnds(self, outcome) ==
    /\ stb' = self
    /\ pc' = "stbDone"
    /\ building' = FALSE
    /\ stbResult' = outcome
    /\ symbolTable' = IF outcome.returned
                      THEN DictSet(symbolTable, self.moduleName, outcome.symtab)
                      ELSE symbolTable
    /\ firstAst' = IF runs = 1 THEN ast' ELSE firstAst
    /\ firstResult' = IF runs = 1 THEN outcome ELSE firstResult

\* STB genCode up to the declarations loop: reset, unpack the AST, genImports.
\* The AST comes from the parser: its symbol lists are lists, which
\* genImports changes in place without raising. genImports(imports or {})
\* hands an empty imports dict over as a new dict, so that one stays empty
STBgenCodeEntry ==
    /\ pc \in {"idle", "stbDone", "dgDone"}
    /\ runs < RunsAllowed(scenario)
    /\ \E a \in IF runs = 0 THEN FirstAsts(scenario) ELSE LaterAsts(scenario) :
          /\ ast' = a
          /\ stb' = stbGenImports(stbReset(stb, a.moduleName), a.imports)
          /\ astImports' = IF a.imports = <<>> THEN <<>>
                           ELSE convertImports(stb.convertImportv2, stbConstImports,
                                               a.imports).imports
    /\ building' = (runs = 0)
    /\ pc' = "stb"
    /\ pos' = 0
    /\ runs' = runs + 1
    /\ UNCHANGED <<dg, scenario, symbolTable, stbResult, dgResult, firstAst, firstResult>>

\* one turn of the declarations loop of STB genCode
STBDeclaration ==
    /\ pc = "stb"
    /\ \E declr \in IF pos < Len(ast.declarations) THEN {ast.declarations[pos + 1]}
                    ELSE IF building /\ pos < MaxDecls THEN Universe(scenario)
                    ELSE {} :
          \E self \in {stbHandle(stb, declr)} :
              /\ ast' = IF pos < Len(ast.declarations) THEN ast
                        ELSE [ast EXCEPT !.declarations = Append(ast.declarations, declr)]
              /\ pos' = pos + 1
              /\ IF Raised(self)
                 THEN StbEnds(self, StbOutcome(self.exc, NoSymtab))
                 ELSE /\ stb' = self
                      /\ UNCHANGED <<building, pc, symbolTable, stbResult, firstAst, firstResult>>
    /\ UNCHANGED <<dg, scenario, astImports, dgResult, runs>>

\* STB genCode after the loop: the two checks, then the symbol table
STBgenCodeReturn ==
    /\ pc = "stb"
    /\ pos = Len(ast.declarations)
    /\ UNCHANGED <<dg, scenario, ast, astImports, pos, dgResult, runs>>
    /\ \E outcome \in stbGenCodeOutcomes(stb) : StbEnds(stb, outcome)

\* DG genCode up to the declarations loop, called with the AST STB accepted,
\* whose imports dict is the one STB genImports has changed (an empty one
\* is replaced by a new dict: genImports(imports and imports or {}));
\* genRules['text'] = kwargs.get('genTexts', False)
DGgenCodeEntry ==
    /\ pc = "stbDone"
    /\ stbResult.returned
    /\ \E genTexts \in GenTextsOptions(scenario) :
          \E self \in {dgGenImports([dgReset(dg, ast.moduleName, symbolTable) EXCEPT
                                        !.genRules.text = genTexts],
                                    astImports)} :
              /\ dg' = self
              /\ IF Raised(self)
                 THEN /\ pc' = "dgDone"
                      /\ dgResult' = DgOutcome(self.exc, <<>>)
                 ELSE /\ pc' = "dg"
                      /\ UNCHANGED dgResult
    /\ astImports' = IF astImports = <<>> THEN <<>>
                     ELSE convertImports(dg.convertImportv2, dgConstImports,
                                         astImports).imports
    /\ pos' = 0
    /\ UNCHANGED <<stb, scenario, ast, building, symbolTable, stbResult,
                   runs, firstAst, firstResult>>

\* one turn of the declarations loop of DG genCode; self.symbolTable is the
\* caller's dict, so what getBaseType writes to it shows in symbolTable
DGDeclaration ==
    /\ pc = "dg"
    /\ pos < Len(ast.declarations)
    /\ \E self \in {dgHandle(dg, ast.declarations[pos + 1])} :
           /\ dg' = self
           /\ symbolTable' = self.symbolTable
           /\ pos' = pos + 1
           /\ IF Raised(self)
              THEN /\ pc' = "dgDone"
                   /\ dgResult' = DgOutcome(self.exc, <<>>)
              ELSE UNCHANGED <<pc, dgResult>>
    /\ UNCHANGED <<stb, scenario, ast, astImports, building, stbResult, runs, firstAst,
                   firstResult>>

\* DG genCode after the loop: emission in _symtable_order, then meta
DGgenCodeReturn ==
    /\ pc = "dg"
    /\ pos = Len(ast.declarations)
    /\ \E comments \in BOOLEAN :
          \E emitted \in {dgEmit(dg, dg.symbolTable[dg.moduleName].symtable_order, 1)} :
          \E self \in {IF Raised(emitted) THEN emitted ELSE dgMeta(emitted, comments)} :
              /\ dg' = self
              /\ dgResult' = IF Raised(self) THEN DgOutcome(self.exc, <<>>)
                             ELSE DgOutcome(NoExc, self.outDict)
    /\ pc' = "dgDone"
    /\ UNCHANGED <<stb, scenario, ast, astImports, building, pos, symbolTable, stbResult,
                   runs, firstAst, firstResult>>

Next ==
    \/ STBgenCodeEntry
    \/ STBDeclaration
    \/ STBgenCodeReturn
    \/ DGgenCodeEntry
    \/ DGDeclaration
    \/ DGgenCodeReturn

\* declarations with symbolic OIDs and TRAP-TYPEs, one run
Init == InitFor("oid")
Spec == Init /\ [][Next]_vars

\* type declarations referring to each other, one run
InitFwd == InitFor("fwd")
SpecFwd == InitFwd /\ [][Next]_vars

\* OBJECT-TYPEs with INDEX clauses, several runs on the same instances
InitRerun == InitFor("rerun")
SpecRerun == InitRerun /\ [][Next]_vars

\* two modules whose types refer to each other, compiled one after the other
InitTypes == InitFor("types")
SpecTypes == InitTypes /\ [][Next]_vars

\* clauses with object references and text sub-clauses, with and without
\* the genTexts option
InitRefs == InitFor("refs")
SpecRefs == InitRefs /\ [][Next]_vars

\* one object with a DEFVAL clause, one run
InitDefval == InitFor("defval")
SpecDefval == InitDefval /\ [][Next]_vars

\* declarations whose names collide after normalisation, one run
InitDup == InitFor("dup")
SpecDup == InitDup /\ [][Next]_vars

\* module headers with IMPORTS clauses, under each conversion table
InitImports == InitFor("imports")
SpecImports == InitImports /\ [][Next]_vars

\* conceptual tables, rows and augmenting rows in every order, one run
InitRows == InitFor("rows")
SpecRows == InitRows /\ [][Next]_vars

(***************************************************************************)
(* Properties.                                                             *)
(***************************************************************************)
IndexOf(s, x) == CHOOSE i \in 1..Len(s) : s[i] = x

\* the admission parents of a declaration: the type of its syntax and the row
\* it augments
AdmissionParents(declr) ==
    (IF declr.syntax.tag = "SimpleSyntax"
     THEN <<stbGenSimpleSyntax(stb, declr.syntax).type.name>> ELSE <<>>)
    \o (IF declr.augmention # <<>> THEN <<stbTransOpers(declr.augmention)>> ELSE <<>>)

\* parents that count as existing without being admitted
ExemptParent(parent) ==
    \/ parent \in DOMAIN stb.importMap
    \/ parent \in Range(baseTypes)
    \/ parent \in {<<"M","i","b","T","a","b","l","e">>, <<"M","i","b","T","a","b","l","e","R","o","w">>, <<"M","i","b","T","a","b","l","e","C","o","l","u","m","n">>}
    \/ parent \in stb.rows

\* C1: forward references are honoured.  A deferred symbol is admitted once
\* its parents have been admitted, so genCode never ends with 'Unknown
\* parents' naming a symbol whose parents all exist; and in the returned
\* _symtable_order every symbol comes after each of its parents that is not
\* imported, a base type, a row token or a recorded row.
C1_ForwardReferencesHonoured ==
    pc = "stbDone" =>
        /\ stbResult.exc.text = "Unknown parents for symbols" =>
               \A i \in 1..Len(stb.postponedSyms) :
                   ~allParentsExists(stb, stb.postponedSyms[i].parents)
        /\ stbResult.returned =>
               LET order == stbResult.symtab.symtable_order
               IN  \A declr \in Range(ast.declarations) :
                       \A parent \in Range(AdmissionParents(declr)) :
                           ~ExemptParent(parent) =>
                               /\ parent \in Range(order)
                               /\ IndexOf(order, parent) < IndexOf(order, stbTransOpers(declr.name))

\* C2: STB genCode returns a symbol table only with an empty postponed map
\* and all declarations processed, and then _symtable_order holds every
\* registered declaration; with symbols still postponed after the last
\* declaration it raises SemanticError 'Unknown parents' naming each of them
\* and returns no table.
C2_PostponedDecidesReturn ==
    pc = "stbDone" =>
        /\ stbResult.returned =>
               /\ stb.postponedSyms = <<>>
               /\ pos = Len(ast.declarations)
               /\ stbResult.symtab.symtable_order = stb.symsOrder
               /\ \A declr \in Range(ast.declarations) :
                      stbTransOpers(declr.name) \in Range(stbResult.symtab.symtable_order)
               /\ ast.moduleName \in DOMAIN symbolTable
               /\ symbolTable[ast.moduleName] = stbResult.symtab
        /\ (stb.postponedSyms # <<>> /\ stbResult.exc.text # "Duplicate symbol found") =>
               /\ stbResult.exc.kind = "PySmiSemanticError"
               /\ stbResult.exc.text = "Unknown parents for symbols"
               /\ Range(stbResult.exc.syms) =
                      {stb.postponedSyms[i].sym : i \in 1..Len(stb.postponedSyms)}
               /\ ~stbResult.returned
               /\ stbResult.symtab = NoSymtab
               /\ ast.moduleName \notin DOMAIN symbolTable

\* two symbols are still postponed when genCode ends, and both are named
C2_Witness ==
    /\ pc = "stbDone"
    /\ stbResult.exc.text = "Unknown parents for symbols"
    /\ Len(stbResult.exc.syms) = 2
    /\ Len(stb.postponedSyms) = 2

\* C3: a document DG returns starts with the key imports, followed by the
\* names of _symtable_order in order, each with the record DG registered
\* for it, and at most a trailing meta key; a name of _symtable_order
\* without a record means CodegenError and no document.
C3_DocumentKeysAreSymtableOrder ==
    pc = "dgDone" =>
        LET order == symbolTable[ast.moduleName].symtable_order
            doc == dgResult.doc
        IN  /\ dgResult.returned =>
                   /\ Len(doc) \in {Len(order) + 1, Len(order) + 2}
                   /\ doc[1].key = <<"i","m","p","o","r","t","s">>
                   /\ \A i \in 1..Len(order) :
                          /\ doc[i + 1].key = order[i]
                          /\ doc[i + 1].val = dg.out[order[i]]
                   /\ Len(doc) = Len(order) + 2 => doc[Len(doc)].key = <<"m","e","t","a">>
            /\ (\E i \in 1..Len(order) : order[i] \notin DOMAIN dg.out) =>
                   /\ ~dgResult.returned
                   /\ dgResult.doc = <<>>
                   /\ dgResult.exc.kind \notin {"PySmiSemanticError", "RecursionError", "KeyError"}
                          => dgResult.exc.kind = "PySmiCodegenError"

\* C4: the record of x ::= { iso n } has oid 1.n, the record of
\* x ::= { p n } has the oid of p's record followed by .n, and an OID of
\* numbers only is emitted as written.
C4_OidOfParentThenSub ==
    pc \in {"dg", "dgDone"} =>
        \A x \in DOMAIN dg.out :
            LET rec == dg.out[x]
                e == dg.symbolTable[dg.moduleName].syms[x].oid
            IN  rec.class = "objectidentity" =>
                    /\ (\A i \in 1..Len(e) : e[i].k = "int") =>
                           rec.oid = join(<<".">>, [i \in 1..Len(e) |-> str(e[i].n)])
                    /\ (Len(e) = 2 /\ e[1].k = "ref" /\ e[2].k = "int") =>
                           /\ e[1].parent = <<"i","s","o">> => rec.oid = <<"1",".">> \o str(e[2].n)
                           /\ (e[1].parent # <<"i","s","o">> /\ e[1].parent \in DOMAIN dg.out) =>
                                  rec.oid = dg.out[e[1].parent].oid \o <<".">> \o str(e[2].n)

\* a = { iso 3 }, b = { a 6 }, c = { b 11 } came out as 1.3, 1.3.6, 1.3.6.11
C4_Witness ==
    /\ pc = "dgDone"
    /\ dgResult.returned
    /\ {<<"a">>, <<"b">>, <<"c">>} \subseteq DOMAIN dg.out
    /\ dg.out[<<"a">>].oid = <<"1",".","3">>
    /\ dg.out[<<"b">>].oid = <<"1",".","3",".","6">>
    /\ dg.out[<<"c">>].oid = <<"1",".","3",".","6",".","1","1">>

\* C5: the record of a TRAP-TYPE has class notificationtype and its oid is
\* the dotted enterprise OID, then .0., then the trap value.
C5_TrapOidIsEnterpriseZeroValue ==
    pc \in {"dg", "dgDone"} =>
        \A i \in 1..pos :
            LET declr == ast.declarations[i]
                name == dgTransOpers(declr.name)
            IN  (declr.clause = "trapTypeClause" /\ name \in DOMAIN dg.out) =>
                    /\ dg.out[name].class = "notificationtype"
                    /\ dg.out[name].oid =
                           dgGenOid(dg, declr.oid).val.oidStr \o <<".","0",".">> \o str(declr.value)

\* C6: for every entry STB registered with an oid, the resolved STB oid
\* joined with dots is the oid of the record DG registered under that name.
C6_OidRoundTrip ==
    pc \in {"dg", "dgDone"} =>
        \A name \in DOMAIN dg.out :
            LET entry == dg.symbolTable[dg.moduleName].syms[name]
                resolved == genNumericOid(dg, entry.oid, 1)
            IN  (name \in DOMAIN dg.symbolTable[dg.moduleName].syms /\ "oid" \in DOMAIN entry) =>
                    /\ resolved.exc = NoExc
                    /\ dg.out[name].oid =
                           join(<<".">>, [i \in 1..Len(resolved.val) |-> str(resolved.val[i])])

IsBareType(idxName) == idxName \in Range(smiv1IdxTypes)

BarePositions(declr) == {p \in 1..Len(declr.index) : IsBareType(declr.index[p])}

\* for each bare-type INDEX element of decls, in declaration order, the
\* place in decls of the OBJECT-TYPE that owns it
RECURSIVE BareOwners(_, _)
BareOwners(decls, i) ==
    IF i > Len(decls) THEN <<>>
    ELSE [j \in 1..Cardinality(BarePositions(decls[i])) |-> i] \o BareOwners(decls, i + 1)

FakeColName(n) == <<"p","y","s","m","i","F","a","k","e","C","o","l">> \o str(n)

\* C7: on a fresh instance the k-th bare-type INDEX element (k from 0) is
\* registered as pysmiFakeCol(1000+k), a fakeColumn whose OID is the owning
\* OBJECT-TYPE's OID followed by 1000+k; the counter advances by one per
\* bare-type element only, and no other fake column exists.
C7_FakeColumnsNumberedInOrder ==
    (runs = 1 /\ pc \in {"stb", "stbDone"} /\ ~Raised(stb)) =>
        LET owners == BareOwners(SubSeq(ast.declarations, 1, pos), 1)
            k == Len(owners)
        IN  /\ stb.fakeidx = fakeidx + k
            /\ \A j \in 1..k :
                   LET name == FakeColName(fakeidx + j - 1)
                       owner == stbTransOpers(ast.declarations[owners[j]].name)
                   IN  /\ name \in DOMAIN stb.out
                       /\ owner \in DOMAIN stb.out
                       /\ stb.out[name].type = "fakeColumn"
                       /\ stb.out[name].oid = stb.out[owner].oid \o <<OidNum(fakeidx + j - 1)>>
            /\ Cardinality({x \in DOMAIN stb.out : stb.out[x].type = "fakeColumn"}) = k

\* three fake columns over two declarations, with a named column between
C7_Witness ==
    /\ runs = 1
    /\ pc = "stbDone"
    /\ stbResult.returned
    /\ stb.fakeidx = fakeidx + 3
    /\ \E i \in 1..Len(ast.declarations) :
           ast.declarations[i].index = <<<<"I","N","T","E","G","E","R">>, <<"k">>, <<"N","E","T","W","O","R","K","A","D","D","R","E","S","S">>>>
    /\ FakeColName(1002) \in DOMAIN stbResult.symtab.syms

\* C8: a genCode run on the same instance with the AST of the first run
\* gives the outcome of the first run.
C8_RerunGivesSameSymtab ==
    (pc = "stbDone" /\ runs > 1 /\ ast = firstAst) => stbResult = firstResult

\* C9: for an AST with a bare-type INDEX element DG completes, and the
\* owning record's indices entry for that element names, in the current
\* module, the fake column STB registered for it.
C9_IndicesNameFakeColumns ==
    (pc = "dgDone" /\ \E declr \in Range(ast.declarations) : BarePositions(declr) # {}) =>
        /\ dgResult.returned
        /\ \A declr \in Range(ast.declarations) :
               \A p \in BarePositions(declr) :
                   LET syms == dg.symbolTable[dg.moduleName].syms
                       owner == dgTransOpers(declr.name)
                       index == dg.out[owner].indices[p]
                   IN  /\ index.module = ast.moduleName
                       /\ index.object \in DOMAIN syms
                       /\ syms[index.object].type = "fakeColumn"
                       /\ \E n \in fakeidx..(stb.fakeidx - 1) :
                              /\ index.object = FakeColName(n)
                              /\ syms[index.object].oid = syms[owner].oid \o <<OidNum(n)>>

\* C10: resolving the OID of any entry of a symbol table STB returned ends
\* with the resolved OID or with SemanticError.
C10_OidResolutionTotal ==
    pc \in {"dg", "dgDone"} =>
        LET syms == dg.symbolTable[dg.moduleName].syms
        IN  \A name \in DOMAIN syms :
                "oid" \in DOMAIN syms[name] =>
                    genNumericOid(dg, syms[name].oid, 1).exc.kind \in {"none", "PySmiSemanticError"}

\* the names a declaration registers, in the order of its regSym calls: one
\* fake column for each bare SMIv1 type of its INDEX clause, numbered from
\* the instance's counter, then the declaration's own name
RegNames(self, declr) ==
    LET bare == SelectSeq(declr.index, LAMBDA idxName : idxName \in Range(smiv1IdxTypes))
    IN  [i \in 1..Len(bare) |-> <<"p","y","s","m","i","F","a","k","e","C","o","l">> \o str(self.fakeidx + i - 1)]
        \o <<stbTransOpers(declr.name)>>

\* the names that are admitted or postponed
TakenNames(self) ==
    DOMAIN self.out \cup {self.postponedSyms[i].sym : i \in 1..Len(self.postponedSyms)}

\* C12: normalized names are unique.  When a declaration registers a name
\* that is already admitted or postponed (or that an earlier registration of
\* the same declaration took), the pass ends with SemanticError 'Duplicate
\* symbol' naming the first such name; every entry of _out is kept as it
\* was, and when the very first registration fails _out, the postponed map
\* and the order list are unchanged.
C12_DuplicateRegistrationRejected ==
    [][(pc = "stb" /\ pos' = pos + 1) =>
          LET declr == ast'.declarations[pos']
              names == RegNames(stb, declr)
              dups == {i \in 1..Len(names) :
                          names[i] \in TakenNames(stb) \cup {names[j] : j \in 1..(i - 1)}}
          IN  dups # {} =>
                  LET i == CHOOSE d \in dups : \A e \in dups : d <= e
                  IN  /\ stb'.exc = PySmiSemanticError("Duplicate symbol found", <<names[i]>>)
                      /\ pc' = "stbDone"
                      /\ ~stbResult'.returned
                      /\ \A k \in DOMAIN stb.out :
                             k \in DOMAIN stb'.out /\ stb'.out[k] = stb.out[k]
                      /\ i = 1 => /\ stb'.out = stb.out
                                  /\ stb'.postponedSyms = stb.postponedSyms
                                  /\ stb'.symsOrder = stb.symsOrder]_vars

\* a-b is admitted as a_b and the declaration of a_b is rejected
C12_Witness ==
    /\ pc = "stbDone"
    /\ Len(ast.declarations) = 2
    /\ ast.declarations[1].name = <<"a","-","b">>
    /\ ast.declarations[2].name = <<"a","_","b">>
    /\ stbResult.exc = PySmiSemanticError("Duplicate symbol found", <<<<"a","_","b">>>>)
    /\ stb.symsOrder = <<<<"a","_","b">>>>
    /\ DOMAIN stb.out = {<<"a","_","b">>}
    /\ stb.out[<<"a","_","b">>].origName = <<"a","-","b">>

SymbolicOidNames(decls) ==
    UNION {{stbTransOpers(decls[i].oid[j].s) :
               j \in {j \in 1..Len(decls[i].oid) : decls[i].oid[j].k = "str"}} :
           i \in 1..Len(decls)}

\* C14: STB genCode returns only if every name used as a symbolic element
\* of a declaration's OID is registered in the module's symbol table or in
\* the import map once the declarations are processed; a pass that reaches
\* this check with such a name unknown raises SemanticError 'Unknown parent
\* symbol' naming one of them.  The check is made after the last
\* declaration, whatever the order of the declarations.
C14_OidParentsCheckedAtEnd ==
    pc = "stbDone" =>
        LET unknown == {sym \in SymbolicOidNames(ast.declarations) :
                           sym \notin DOMAIN stb.out /\ sym \notin DOMAIN stb.importMap}
        IN  /\ stbResult.returned =>
                   /\ unknown = {}
                   /\ \A sym \in SymbolicOidNames(ast.declarations) :
                          sym \in DOMAIN stbResult.symtab.syms \/ sym \in DOMAIN stb.importMap
            /\ (pos = Len(ast.declarations) /\ stb.exc = NoExc /\ stb.postponedSyms = <<>>) =>
                   IF unknown = {} THEN stbResult.returned
                   ELSE /\ ~stbResult.returned
                        /\ stbResult.exc.kind = "PySmiSemanticError"
                        /\ stbResult.exc.text = "Unknown parent symbol"
                        /\ Len(stbResult.exc.syms) = 1
                        /\ stbResult.exc.syms[1] \in unknown

\* a is declared under b before b is declared, and the table is returned
C14_Witness ==
    /\ pc = "stbDone"
    /\ stbResult.returned
    /\ Len(ast.declarations) = 2
    /\ ast.declarations[1] = ValueDeclaration(<<"a">>, <<OidName(<<"b">>), OidInt(3)>>)
    /\ ast.declarations[2] = ValueDeclaration(<<"b">>, <<OidName(<<"i","s","o">>), OidInt(6)>>)
    /\ stbResult.symtab.symtable_order = <<<<"a">>, <<"b">>>>

\* C11: base-type resolution always terminates.  For the symbol tables DG
\* holds, getBaseType of every declared object either returns one of the
\* base types or raises SemanticError, and no DG genCode call ends with the
\* interpreter's RecursionError.
C11_BaseTypeResolutionTerminates ==
    pc \in {"dg", "dgDone"} =>
        /\ \A declr \in Range(ast.declarations) :
               declr.clause = "objectTypeClause" =>
                   LET t == getBaseType(dg, dgTransOpers(declr.name), dg.moduleName, 1)
                   IN  \/ t.exc = NoExc /\ t.val.type.name \in Range(baseTypes)
                       \/ t.exc.kind = "PySmiSemanticError"
        /\ pc = "dgDone" => dgResult.exc.kind # "RecursionError"

\* the declaration the last turn of a DG declarations loop processed is an
\* OBJECT-TYPE with a DEFVAL clause
DefvalLowered ==
    /\ pc \in {"dg", "dgDone"}
    /\ pos >= 1
    /\ pos <= Len(ast.declarations)
    /\ ast.declarations[pos].clause = "objectTypeClause"
    /\ "defval" \in DOMAIN ast.declarations[pos]

LoweredDefval == ast.declarations[pos].defval

LoweredName == dgTransOpers(ast.declarations[pos].name)

\* the object's record has a `default` field
HasDefault == ~Raised(dg) /\ "default" \in DOMAIN dg.out[LoweredName]

\* the {value, format} object of the record, whatever its nesting
InnerDefault ==
    LET d == dg.out[LoweredName].default
    IN  IF "default" \in DOMAIN d THEN d.default ELSE d

IsBareIdentifier(defval) ==
    defval.k = "str" /\ ~isHex(defval) /\ ~isBinary(defval) /\ ~isQuoted(defval)

\* the resolved base type and subtype of the object
ResolvedType == getBaseType(dg, LoweredName, dg.moduleName, 1).val

\* C15: a bare-identifier DEFVAL is lowered by the resolved base type.  On
\* ObjectIdentifier a name known in the module's symbol table or the import
\* map gives format 'oid' with the resolved OID; else on Integer/Integer32 a
\* member of the enumeration gives {value: name, format: 'enum'}; else on
\* Bits the listed bit names (the identifier, or the names of a bits list)
\* are mapped to their positions, an unknown bit name raising SemanticError;
\* every other combination raises SemanticError.
C15_BareIdentifierDefvalByBaseType ==
    (DefvalLowered /\
     (\/ IsBareIdentifier(LoweredDefval)
      \/ LoweredDefval.k = "list" /\ ResolvedType.type.name = <<"B","i","t","s">>)) =>
        LET base == ResolvedType.type.name
            subtype == ResolvedType.subtype
            bare == LoweredDefval.k = "str"
            ident == IF bare THEN LoweredDefval.s ELSE <<>>
            listed == IF bare THEN <<ident>> ELSE LoweredDefval.l
            own == dg.symbolTable[dg.moduleName].syms
            known == ident \in DOMAIN own \/ ident \in DOMAIN dg.importMap
            members == {subtype[i].name : i \in 1..Len(subtype)}
            position(b) == subtype[CHOOSE i \in 1..Len(subtype) : subtype[i].name = b].value
        IN  IF bare /\ base = <<"O","b","j","e","c","t","I","d","e","n","t","i","f","i","e","r">> /\ known
            THEN /\ HasDefault
                 /\ InnerDefault.format = "oid"
                 /\ ident \in DOMAIN own /\ "oid" \in DOMAIN own[ident]
                 /\ InnerDefault.value = strTuple(genNumericOid(dg, own[ident].oid, 1).val)
            ELSE IF bare /\ base \in {<<"I","n","t","e","g","e","r">>, <<"I","n","t","e","g","e","r","3","2">>} /\ ident \in members
            THEN HasDefault /\ InnerDefault = [value |-> ident, format |-> "enum"]
            ELSE IF base = <<"B","i","t","s">> /\ Range(listed) \subseteq members
            THEN /\ HasDefault
                 /\ InnerDefault = [value |-> [b \in Range(listed) |-> position(b)],
                                    format |-> "bits"]
            ELSE dg.exc.kind = "PySmiSemanticError"

\* C16: a quoted-string DEFVAL.  An empty string on an object whose base
\* type is not OctetString gives no default; an empty string on OctetString
\* gives {value: "", format: 'string'}; a non-empty string gives its text
\* without the quotes with format 'string'.
C16_QuotedStringDefval ==
    (DefvalLowered /\ LoweredDefval.k = "str" /\ ~isHex(LoweredDefval) /\
     ~isBinary(LoweredDefval) /\ isQuoted(LoweredDefval)) =>
        LET text == Slice(LoweredDefval.s, 1, -1)
        IN  /\ ~Raised(dg)
            /\ IF text = <<>> /\ ResolvedType.type.name # <<"O","c","t","e","t","S","t","r","i","n","g">>
               THEN "default" \notin DOMAIN dg.out[LoweredName]
               ELSE /\ HasDefault
                    /\ InnerDefault = [value |-> text, format |-> "string"]

\* C17: every DEFVAL form that yields a value is wrapped alike.  When the
\* object's record has a `default` field, that field is {default: {value,
\* format}} for each of the seven formats.
C17_DefaultWrappedAlike ==
    (DefvalLowered /\ HasDefault) =>
        LET d == dg.out[LoweredName].default
        IN  /\ DOMAIN d = {"default"}
            /\ DOMAIN d.default = {"value", "format"}
            /\ d.default.format \in {"decimal", "hex", "bin", "string", "oid", "enum", "bits"}

\* the {module, object} references of the emitted records
EmittedRefs ==
    UNION {(IF "objects" \in DOMAIN dg.out[sym] THEN Range(dg.out[sym].objects) ELSE {})
           \cup (IF "modulecompliance" \in DOMAIN dg.out[sym]
                 THEN Range(dg.out[sym].modulecompliance) ELSE {}) :
           sym \in DOMAIN dg.out}

\* C18: in every {module, object} reference of an `objects` list and of a
\* `modulecompliance` list, the module is the source module of the object in
\* the import map when the object was imported, and the current module
\* otherwise.
C18_ReferencesResolvedByImportMap ==
    pc \in {"dg", "dgDone"} =>
        \A ref \in EmittedRefs :
            ref.module = IF ref.object \in DOMAIN dg.importMap
                         THEN dg.importMap[ref.object]
                         ELSE dg.moduleName

TextFields == {"description", "contactinfo", "organization", "lastupdated", "units"}

\* the text fields a declaration supplies, by their names in the records
SuppliedTextFields(declr) ==
    {f \in TextFields :
        \/ f \in DOMAIN declr
        \/ f = "contactinfo" /\ "contactInfo" \in DOMAIN declr
        \/ f = "lastupdated" /\ "lastUpdated" \in DOMAIN declr}

\* C19: genTexts gates the text fields.  Without genTexts no emitted record
\* has a description, contactinfo, organization, lastupdated or units
\* field; with genTexts the record of a declaration has each of these
\* fields the declaration supplies.
C19_GenTextsGatesTextFields ==
    pc \in {"dg", "dgDone"} =>
        \A i \in 1..Len(ast.declarations) :
            LET declr == ast.declarations[i]
                sym == dgTransOpers(declr.name)
            IN  (i <= pos /\ sym \in DOMAIN dg.out) =>
                    IF dg.genRules.text
                    THEN SuppliedTextFields(declr) \subseteq DOMAIN dg.out[sym]
                    ELSE DOMAIN dg.out[sym] \cap TextFields = {}

(***************************************************************************)
(* Import rewriting and constant imports in DG.                            *)
(***************************************************************************)
\* the (module, symbol) pairs of an imports dict
ImportPairs(imports) ==
    UNION {{<<imports[i].key, imports[i].val[j]>> : j \in 1..Len(imports[i].val)} :
              i \in 1..Len(imports)}

\* the declared pairs that the conversion table has an entry for
MatchingPairs(table, imports) ==
    {p \in ImportPairs(imports) : p[1] \in DOMAIN table /\ p[2] \in DOMAIN table[p[1]]}

\* the modules of the imports record DG genImports has emitted
ImportsRecord == dg.outDict[1].val.modules

RecordPairs ==
    UNION {{<<ImportsRecord[i].module, s>> : s \in ImportsRecord[i].symbols} :
              i \in 1..Len(ImportsRecord)}

ConstPairs(constImports) ==
    UNION {{<<m, s>> : s \in Range(constImports[m])} : m \in DOMAIN constImports}

\* DG genImports has returned and no declaration is lowered yet
ImportsEmitted == pc = "dg" /\ pos = 0

\* C20: for any declared imports and any conversion table, the imports
\* record DG emits holds no declared pair that the table has an entry for,
\* holds every replacement of each such pair, holds every pair of DG's
\* constImports, lists its modules in sorted order, each once (the symbols
\* of a module are a set), and for a module without imports holds the
\* pairs of constImports only
C20_ImportsRewrittenAndMerged ==
    ImportsEmitted =>
        LET table == dg.convertImportv2
            matching == MatchingPairs(table, ast.imports)
        IN  /\ RecordPairs \cap matching = {}
            /\ \A p \in matching : Range(table[p[1]][p[2]]) \subseteq RecordPairs
            /\ ConstPairs(dgConstImports) \subseteq RecordPairs
            /\ \A i, j \in 1..Len(ImportsRecord) :
                   i < j => strLess(ImportsRecord[i].module, ImportsRecord[j].module)
            /\ ast.imports = <<>> => RecordPairs = ConstPairs(dgConstImports)

(***************************************************************************)
(* Wake-up of postponed symbols.                                           *)
(***************************************************************************)
\* the parents of the declarations of a set of names that have to be admitted
DeclaredParents(names) ==
    UNION {{parent \in Range(AdmissionParents(declr)) : ~ExemptParent(parent)} :
              declr \in {d \in Range(ast.declarations) : stbTransOpers(d.name) \in names}}

\* the names reached from a set of names by following parents n times or fewer
RECURSIVE Ancestors(_, _)
Ancestors(names, n) ==
    IF n = 0 THEN {}
    ELSE DeclaredParents(names) \cup Ancestors(DeclaredParents(names), n - 1)

\* every parent is declared in the module and no declaration is its own ancestor
ParentsDeclaredInModule ==
    \A declr \in Range(ast.declarations) :
        LET name == stbTransOpers(declr.name)
        IN  /\ DeclaredParents({name}) \subseteq
                   {stbTransOpers(d.name) : d \in Range(ast.declarations)}
            /\ name \notin Ancestors({name}, Len(ast.declarations))

\* C21: the wake-up of postponed symbols is transitive.  After a regSym
\* call has returned, no symbol is left in the postponed map whose parents
\* all exist under the admission rule; a module whose every parent is
\* declared in it therefore never ends with 'Unknown parents'.
C21_WakeUpTransitive ==
    /\ pc \in {"stb", "stbDone"} =>
           \A i \in 1..Len(stb.postponedSyms) :
               ~allParentsExists(stb, stb.postponedSyms[i].parents)
    /\ (pc = "stbDone" /\ ParentsDeclaredInModule)
           => stbResult.exc.text # "Unknown parents for symbols"

(***************************************************************************)
(* Classification of rows in STB.                                          *)
(***************************************************************************)
\* the row objects of the AST: OBJECT-TYPEs whose syntax names the row
\* type of a conceptual table declared in the module
RowObjects ==
    {declr \in Range(ast.declarations) :
        /\ declr.clause = "objectTypeClause"
        /\ declr.syntax.tag = "row"
        /\ \E tbl \in Range(ast.declarations) :
               /\ tbl.clause = "objectTypeClause"
               /\ tbl.syntax.tag = "conceptualTable"
               /\ tbl.syntax.type = declr.syntax.type}

\* C27: the classification of a row does not depend on the declaration
\* order.  In the symbol table STB returns, every OBJECT-TYPE whose syntax
\* names the row type of a conceptual table of the module has the syntax
\* type MibTableRow, whether the table is declared before or after it.
C27_RowClassifiedInAnyOrder ==
    (pc = "stbDone" /\ stbResult.returned) =>
        \A declr \in RowObjects :
            stbResult.symtab.syms[stbTransOpers(declr.name)].syntax =
                [type |-> [name |-> <<"M","i","b","T","a","b","l","e","R","o","w">>, module |-> <<>>], subtype |-> <<>>]

(***************************************************************************)
(* The admission rule of STB regSym.                                       *)
(***************************************************************************)
\* the parents a declaration is registered with: for an OBJECT-TYPE the
\* type name of its lowered syntax and the row it augments, for a type
\* declaration its parent type name, for any other clause none
RuleParents(declr) ==
    LET typeName == stbPrepData(stb, declr).val.syntax.type.name
    IN  CASE declr.clause = "objectTypeClause" ->
                 <<typeName>> \o (IF declr.augmention # <<>>
                                  THEN <<stbTransOpers(declr.augmention)>> ELSE <<>>)
          [] declr.clause = "typeDeclaration" -> <<typeName>>
          [] OTHER -> <<>>

\* the clause is one that registers a symbol: every clause but the
\* declaration of a SEQUENCE type
Registers(declr) ==
    declr.clause = "typeDeclaration" => declr.syntax.tag # "SEQUENCE"

NotYetRegistered(name) ==
    /\ name \notin DOMAIN stb.out
    /\ \A i \in 1..Len(stb.postponedSyms) : stb.postponedSyms[i].sym # name

\* one turn of the STB declarations loop, seen as the regSym call it makes
RegSymStep(declr) ==
    /\ pc = "stb"
    /\ pos' = pos + 1
    /\ declr = ast'.declarations[pos']
    /\ Registers(declr)
    /\ NotYetRegistered(stbTransOpers(declr.name))

\* C22: a symbol not yet registered is put into _out and appended to
\* _symtable_order if and only if each of its parents is in _out, a key of
\* the import map, a base type, a row token or a recorded row; otherwise it
\* is put into the postponed map only, and _out and _symtable_order stay
\* as they were.
C22_AdmissionRule ==
    [][\A declr \in Universe(scenario) :
          RegSymStep(declr) =>
              LET name == stbTransOpers(declr.name)
                  parents == RuleParents(declr)
              IN  IF \A parent \in Range(parents) :
                         parent \in DOMAIN stb.out \/ ExemptParent(parent)
                  THEN /\ name \in DOMAIN stb'.out
                       /\ Len(stb'.symsOrder) > Len(stb.symsOrder)
                       /\ stb'.symsOrder[Len(stb.symsOrder) + 1] = name
                       /\ \A i \in 1..Len(stb'.postponedSyms) :
                              stb'.postponedSyms[i].sym # name
                  ELSE /\ stb'.postponedSyms =
                              Append(stb.postponedSyms,
                                     [sym |-> name, parents |-> parents,
                                      symProps |-> stb'.postponedSyms[Len(stb'.postponedSyms)].symProps])
                       /\ stb'.out = stb.out
                       /\ stb'.symsOrder = stb.symsOrder]_vars

\* a row that augments another one is postponed with its two parents while
\* a symbol declared before it is admitted
C22_Witness ==
    /\ pc = "stb"
    /\ Len(stb.symsOrder) = 1
    /\ Len(stb.postponedSyms) = 1
    /\ Len(stb.postponedSyms[1].parents) = 2

(***************************************************************************)
(* The result of getBaseType.                                              *)
(***************************************************************************)
\* the symbols and modules getBaseType is asked about: the declared names,
\* a name and a module that no table has
AskedSymbols == {stbTransOpers(declr.name) : declr \in Range(ast.declarations)} \cup {<<"z","z">>}

AskedModules == {ast.moduleName, <<"Z","Z">>}

\* the syntax the tables hold for a symbol, (('', ''), '') without one
TableSyntax(symName, module) ==
    LET entry == dg.symbolTable[module].syms[symName]
    IN  IF "syntax" \in DOMAIN entry THEN entry.syntax ELSE NoSymSyntax

\* the lookup of the symbol misses, or its type is empty
LookupFails(symName, module) ==
    \/ module \notin DOMAIN dg.symbolTable
    \/ symName \notin DOMAIN dg.symbolTable[module].syms
    \/ TableSyntax(symName, module).type.name = <<>>

\* the child's elements followed by the parent's when both constraints are
\* lists; else the child's own constraint, or, with `inherits`, the list of
\* the parent for a child without a list
Merged(child, parent, inherits) ==
    IF child # <<>> /\ parent # <<>> THEN child \o parent
    ELSE IF inherits /\ parent # <<>> THEN parent
    ELSE child

\* what getBaseType gives for a symbol: SemanticError when the lookup
\* fails, the syntax of the symbol when its type is a base type, and
\* else the base type of the parent with the two constraints merged
BaseTypeIs(symName, module, inherits) ==
    LET r == getBaseType(dg, symName, module, 1)
    IN  IF LookupFails(symName, module)
        THEN r.exc.kind = "PySmiSemanticError"
        ELSE LET syntax == TableSyntax(symName, module)
             IN  IF syntax.type.name \in Range(baseTypes)
                 THEN r.exc.kind = "none" /\ r.val = syntax
                 ELSE LET base == getBaseType(dg, syntax.type.name, syntax.type.module, 1)
                      IN  IF base.exc.kind # "none"
                          THEN r.exc = base.exc
                          ELSE /\ r.exc.kind = "none"
                               /\ r.val.type = base.val.type
                               /\ r.val.subtype = Merged(syntax.subtype, base.val.subtype, inherits)

C24_SymbolTablesNotMutated ==
    pc \in {"dg", "dgDone"} =>
        /\ symbolTable[ast.moduleName] = stbResult.symtab
        /\ dg.symbolTable = symbolTable
        /\ \A symName \in AskedSymbols :
               LET first == getBaseType(dg, symName, ast.moduleName, 1)
                   second == getBaseType(first.self, symName, ast.moduleName, 1)
               IN  second.exc = first.exc /\ second.val = first.val

(***************************************************************************)
(* The AST under the two passes.                                           *)
(***************************************************************************)
\* DG genImports on a copy of the AST as it was declared
FreshImportsRecord ==
    dgGenImports(dgReset(dg, ast.moduleName, symbolTable), ast.imports).outDict[1]

\* C25: lowering leaves its input AST as it was.  Once STB genCode or DG
\* genCode has run genImports, the imports map of the AST object is the
\* declared one (no module key added, no symbol removed or appended), and
\* the imports record DG emits after STB on the same AST object is the one
\* DG emits for a copy of the AST as declared.
C25_AstLeftUnchanged ==
    /\ pc # "idle" => astImports = ast.imports
    /\ ImportsEmitted => dg.outDict[1] = FreshImportsRecord

(***************************************************************************)
(* The record keys of the two passes.                                      *)
(***************************************************************************)
\* C26: the two passes agree on record keys.  When DG has lowered every
\* declaration of an AST that STB accepted, each name of the module's
\* _symtable_order is a key of DG's records, and DG genCode does not end
\* with CodegenError; declarations named by a reserved word, fake columns
\* and type declarations included.
C26_PassesAgreeOnKeys ==
    /\ (pc = "dg" /\ pos = Len(ast.declarations)) =>
           \A sym \in Range(symbolTable[ast.moduleName].symtable_order) :
               sym \in DOMAIN dg.out
    /\ pc = "dgDone" => dgResult.exc.kind # "PySmiCodegenError"
============================================================================
